---------------------------- MODULE Spec2Model ----------------------------
(***************************************************************************)
(* Password Security Analysis Engine of the credential-management client:  *)
(* PasswordGenerator.generate, the two strength scorers                     *)
(* (PasswordGenerator.analyzeStrength, calculatePasswordStrength) and the   *)
(* vault health analysis of the PasswordHealth component.                   *)
(*                                                                         *)
(* A string is a sequence of one-character strings.                        *)
(***************************************************************************)
EXTENDS Naturals, Integers, Sequences, FiniteSets, TLC

VARIABLES
    genOptions,     \* the GeneratorOptions of the last generate call
    genOutcome,     \* "none" | "returned" | "threw"
    genPassword,    \* the string the last generate call returned
    password,       \* the string handed to the two strength scorers
    strength,       \* the last result of PasswordGenerator.analyzeStrength
    breakdown,      \* the last result of calculatePasswordStrength
    now,            \* the wall clock: a calendar date
    loading,        \* PasswordHealth: loading
    passwords,      \* PasswordHealth: passwords
    healthStats,    \* PasswordHealth: healthStats
    activeTab,      \* ImportPasswords: activeTab
    file,           \* ImportPasswords: file
    importing,      \* ImportPasswords: importing
    importResult,   \* ImportPasswords: importResult
    previewData,    \* ImportPasswords: previewData
    progress,       \* ImportPasswords: progress
    reading,        \* the files whose file.text() parseFile awaits
    commit,         \* the run of handleImport: its position and locals, and
                    \* the candidates of the preview created so far
    store,          \* the records of blink.db.passwords
    exported,       \* the file of the last export and the records in it
    instance,       \* EncryptionService.instance: an object, or 0 for undefined
    masterKey,      \* the masterKey field of every EncryptionService object
    held,           \* the object getInstance returned to each caller, 0 before
    lastCall,       \* the last call to the service, with what it gave
    keySet          \* a setMasterKey call occurred with no later
                    \* clearMasterKey

genVars == <<genOptions, genOutcome, genPassword>>
scoreVars == <<password, strength, breakdown>>
healthVars == <<now, loading, passwords, healthStats>>
importVars == <<activeTab, file, importing, importResult, previewData, progress,
                reading, commit, store, exported>>
encVars == <<instance, masterKey, held, lastCall, keySet>>
vars == <<genOptions, genOutcome, genPassword, password, strength, breakdown,
          now, loading, passwords, healthStats,
          activeTab, file, importing, importResult, previewData, progress,
          reading, commit, store, exported,
          instance, masterKey, held, lastCall, keySet>>

----------------------------------------------------------------------------
(* Bounds of the model.                                                    *)

\* generate is called with length 0..MaxLength
MaxLength == 4
\* Math.random() returns one of 0/RandomGrain .. (RandomGrain-1)/RandomGrain
RandomGrain == 2
\* at most MaxTyped characters are typed after a pasted string
MaxTyped == 3
\* the store returns at most MaxVault records
MaxVault == 4
\* a parsed file has at most MaxRecords data rows or array elements
MaxRecords == 3
\* at most MaxReads files are being read at a time
MaxReads == 1
\* the import screen's store holds at most MaxStore records
MaxStore == 3
\* at most MaxObjects EncryptionService objects are constructed
MaxObjects == 2

----------------------------------------------------------------------------
(* Strings.                                                                *)

Max(a, b) == IF a >= b THEN a ELSE b
Min(a, b) == IF a <= b THEN a ELSE b

Range(s) == {s[i] : i \in 1..Len(s)}

\* String.prototype.charAt: the empty string when the index is out of range
CharAt(s, i) == IF i >= 0 /\ i < Len(s) THEN <<s[i + 1]>> ELSE <<>>

\* Math.floor(Math.random() * n) for Math.random() = j / RandomGrain
RandomIndex(j, n) == (j * n) \div RandomGrain

----------------------------------------------------------------------------
(* PasswordGenerator: the character pools.                                 *)

UPPERCASE == <<"A","B","C","D","E","F","G","H","I","J","K","L","M",
               "N","O","P","Q","R","S","T","U","V","W","X","Y","Z">>
LOWERCASE == <<"a","b","c","d","e","f","g","h","i","j","k","l","m",
               "n","o","p","q","r","s","t","u","v","w","x","y","z">>
NUMBERS == <<"0","1","2","3","4","5","6","7","8","9">>
SYMBOLS == <<"!","@","#","$","%","^","&","*","(",")","_","+","-","=",
             "[","]","{","}","|",";",":",",",".","<",">","?">>
SIMILAR == <<"i","l","1","L","o","0","O">>

UpperSet == Range(UPPERCASE)
LowerSet == Range(LOWERCASE)
NumberSet == Range(NUMBERS)
SymbolSet == Range(SYMBOLS)
SimilarSet == Range(SIMILAR)

\* charset.split('').filter(char => !this.SIMILAR.includes(char)).join('')
WithoutSimilar(s) == SelectSeq(s, LAMBDA c : c \notin SimilarSet)

GeneratorOptions ==
    [length : 0..MaxLength,
     includeUppercase : BOOLEAN, includeLowercase : BOOLEAN,
     includeNumbers : BOOLEAN, includeSymbols : BOOLEAN,
     excludeSimilar : BOOLEAN]

NoOptions ==
    [length |-> 0, includeUppercase |-> FALSE, includeLowercase |-> FALSE,
     includeNumbers |-> FALSE, includeSymbols |-> FALSE, excludeSimilar |-> FALSE]

\* generate, lines 22-31: the working alphabet
Charset(o) ==
    LET all == (IF o.includeUppercase THEN UPPERCASE ELSE <<>>)
               \o (IF o.includeLowercase THEN LOWERCASE ELSE <<>>)
               \o (IF o.includeNumbers THEN NUMBERS ELSE <<>>)
               \o (IF o.includeSymbols THEN SYMBOLS ELSE <<>>)
    IN IF o.excludeSimilar THEN WithoutSimilar(all) ELSE all

\* (mutant) getRandomChar ignores excludeSimilar
MutGetRandomChar(charset, excludeSimilar, j) ==
    CharAt(charset, RandomIndex(j, Len(charset)))
\* getRandomChar(charset, excludeSimilar) with the random draw j
GetRandomChar(charset, excludeSimilar, j) ==
    LET chars == IF excludeSimilar THEN WithoutSimilar(charset) ELSE charset
    IN CharAt(chars, RandomIndex(j, Len(chars)))

\* the pools of the enabled classes, in the order generate visits them
EnabledPools(o) ==
    (IF o.includeUppercase THEN <<UPPERCASE>> ELSE <<>>)
    \o (IF o.includeLowercase THEN <<LOWERCASE>> ELSE <<>>)
    \o (IF o.includeNumbers THEN <<NUMBERS>> ELSE <<>>)
    \o (IF o.includeSymbols THEN <<SYMBOLS>> ELSE <<>>)

\* generate, lines 37-51: one character of every selected type;
\* draws[k] is the random draw of the k-th getRandomChar call
RECURSIVE GuaranteedFrom(_, _, _, _)
GuaranteedFrom(pools, excludeSimilar, draws, k) ==
    IF k > Len(pools) THEN <<>>
    ELSE GetRandomChar(pools[k], excludeSimilar, draws[k])
         \o GuaranteedFrom(pools, excludeSimilar, draws, k + 1)

\* (mutant) the first selected type is given no character of its own
MutGuaranteed(o, draws) == GuaranteedFrom(EnabledPools(o), o.excludeSimilar, draws, 2)
\* generate, lines 37-51, for the options o
Guaranteed(o, draws) == GuaranteedFrom(EnabledPools(o), o.excludeSimilar, draws, 1)

\* generate, lines 53-56: for (i = password.length; i < options.length; i++)
RECURSIVE Fill(_, _, _, _, _)
Fill(pw, charset, i, len, draws) ==
    IF i >= len THEN pw
    ELSE Fill(pw \o CharAt(charset, RandomIndex(draws[i + 1], Len(charset))),
              charset, i + 1, len, draws)

\* (mutant) the fill loop starts at 0 instead of password.length
MutUnshuffled(o, draws) ==
    LET g == Guaranteed(o, draws)
    IN Fill(g, Charset(o), 0, o.length, draws)
\* generate, lines 37-56: the password before the shuffle
Unshuffled(o, draws) ==
    LET g == Guaranteed(o, draws)
    IN Fill(g, Charset(o), Len(g), o.length, draws)

\* the permutations of 1..n
Perms(n) == {p \in [1..n -> 1..n] : \A i, j \in 1..n : p[i] = p[j] => i = j}

\* generate, line 59: the sort with a random comparator returns the characters in
\* an order the random draws decide
Shuffled(pw, perm) == [i \in 1..Len(pw) |-> pw[perm[i]]]

\* the number of random draws a call can use
DrawCount(o) == Max(o.length, Len(EnabledPools(o)))

\* (mutant) the empty working alphabet is not rejected
MutThrows(o) == FALSE
\* generate, lines 33-35: if (charset.length === 0) throw new Error(...)
Throws(o) == Len(Charset(o)) = 0

----------------------------------------------------------------------------
(* The strength scorers: the regular expressions.                          *)

\* /[a-z]/, /[A-Z]/, /[0-9]/ and /[^a-zA-Z0-9]/ .test(password)
HasLowercase(p) == \E i \in 1..Len(p) : p[i] \in LowerSet
HasUppercase(p) == \E i \in 1..Len(p) : p[i] \in UpperSet
HasNumbers(p) == \E i \in 1..Len(p) : p[i] \in NumberSet
HasSymbols(p) ==
    \E i \in 1..Len(p) :
        p[i] \notin LowerSet /\ p[i] \notin UpperSet /\ p[i] \notin NumberSet

\* the characters of the class [!@#$%^&*()_+\-=[\]{}|;:,.<>?]
ListedSymbols ==
    {"!","@","#","$","%","^","&","*","(",")","_","+","-","=",
     "[","]","{","}","|",";",":",",",".","<",">","?"}

\* /[!@#$%^&*()_+\-=[\]{}|;:,.<>?]/.test(password)
HasListedSymbol(p) ==
    \E i \in 1..Len(p) : p[i] \in ListedSymbols

\* the characters the regular expression's . does not match
LineTerminators == {"\n", "\r"}

\* /(.)\\1{2,}/.test(password): in the regular expression literal \\ is an
\* escaped backslash, so the pattern is one character, a backslash, and two
\* or more characters 1; it holds no back-reference
MatchesRepeated(p) ==
    \E i \in 1..(Len(p) - 3) :
        /\ p[i] \notin LineTerminators
        /\ p[i + 1] = "\\"
        /\ p[i + 2] = "1"
        /\ p[i + 3] = "1"

\* the canonical form the i flag compares characters in
FoldTable ==
    [c \in UpperSet |-> LOWERCASE[CHOOSE k \in 1..Len(UPPERCASE) : UPPERCASE[k] = c]]
FoldCase(c) == IF c \in UpperSet THEN FoldTable[c] ELSE c

\* (mutant) the list lacks the word password
MutCommonPatterns ==
    {<<"1","2","3">>, <<"a","b","c">>, <<"q","w","e">>, <<"a","d","m","i","n">>}
\* the alternatives of /123|abc|qwe|password|admin/i
CommonPatterns ==
    {<<"1","2","3">>, <<"a","b","c">>, <<"q","w","e">>,
     <<"p","a","s","s","w","o","r","d">>, <<"a","d","m","i","n">>}

\* /123|abc|qwe|password|admin/i.test(password)
MatchesCommon(p) ==
    LET folded == [i \in 1..Len(p) |-> FoldCase(p[i])]
    IN \E w \in CommonPatterns :
           \E i \in 1..(Len(p) - Len(w) + 1) :
               \A k \in 1..Len(w) : folded[i + k - 1] = w[k]

----------------------------------------------------------------------------
(* PasswordGenerator.analyzeStrength (the 0-5 scale).                      *)

StrengthLabels == <<"Very Weak", "Weak", "Fair", "Good", "Strong">>

\* lines 74-77: the length check
LengthPoints(p) == IF Len(p) >= 12 THEN 2 ELSE IF Len(p) >= 8 THEN 1 ELSE 0

\* lines 77-90: the suggestions, in the order they are pushed
Suggestions(p) ==
    (IF Len(p) >= 8 THEN <<>> ELSE <<"Use at least 8 characters">>)
    \o (IF HasLowercase(p) THEN <<>> ELSE <<"Include lowercase letters">>)
    \o (IF HasUppercase(p) THEN <<>> ELSE <<"Include uppercase letters">>)
    \o (IF HasNumbers(p) THEN <<>> ELSE <<"Include numbers">>)
    \o (IF HasSymbols(p) THEN <<>> ELSE <<"Include special characters">>)

\* lines 71-98: the score before the clamp
RawStrengthScore(p) ==
    LengthPoints(p)
    + (IF HasLowercase(p) THEN 1 ELSE 0)
    + (IF HasUppercase(p) THEN 1 ELSE 0)
    + (IF HasNumbers(p) THEN 1 ELSE 0)
    + (IF HasSymbols(p) THEN 1 ELSE 0)
    + (IF Len(p) >= 16 THEN 1 ELSE 0)
    + (IF HasListedSymbol(p) THEN 1 ELSE 0)
    - (IF MatchesRepeated(p) THEN 1 ELSE 0)
    - (IF MatchesCommon(p) THEN 2 ELSE 0)

\* lines 100-115: strengthLevels has the indices 0..4, and
\* strengthLevels[score]?.label || 'Very Weak' falls back for any other index
AnalyzeStrength(p) ==
    LET score == Max(0, Min(5, RawStrengthScore(p)))
    IN [score |-> score,
        label |-> IF score + 1 \in 1..Len(StrengthLabels)
                  THEN StrengthLabels[score + 1] ELSE "Very Weak",
        suggestions |-> Suggestions(p)]

----------------------------------------------------------------------------
(* calculatePasswordStrength (the 0-100 scale).                            *)

\* (mutant) the scores of the two middle steps are exchanged
MutLengthScore(p) ==
    IF Len(p) >= 16 THEN 30
    ELSE IF Len(p) >= 12 THEN 15
    ELSE IF Len(p) >= 8 THEN 25
    ELSE IF Len(p) >= 6 THEN 10
    ELSE 5
\* lines 132-137: the length scoring
LengthScore(p) ==
    IF Len(p) >= 16 THEN 30
    ELSE IF Len(p) >= 12 THEN 25
    ELSE IF Len(p) >= 8 THEN 15
    ELSE IF Len(p) >= 6 THEN 10
    ELSE 5

\* line 146: [hasUppercase, hasLowercase, hasNumbers, hasSymbols].filter(Boolean).length
VarietyCount(p) ==
    Cardinality({k \in 1..4 :
        <<HasUppercase(p), HasLowercase(p), HasNumbers(p), HasSymbols(p)>>[k]})

\* lines 130-152: the score before the clamp
RawBreakdownScore(p) ==
    LET varietyCount == VarietyCount(p)
    IN
    LengthScore(p)
    + (IF HasUppercase(p) THEN 15 ELSE 0)
    + (IF HasLowercase(p) THEN 15 ELSE 0)
    + (IF HasNumbers(p) THEN 15 ELSE 0)
    + (IF HasSymbols(p) THEN 25 ELSE 0)
    + (IF varietyCount >= 3 THEN 10 ELSE 0)
    + (IF varietyCount = 4 THEN 10 ELSE 0)
    - (IF MatchesRepeated(p) THEN 10 ELSE 0)
    - (IF MatchesCommon(p) THEN 20 ELSE 0)

CalculatePasswordStrength(p) ==
    [score |-> Max(0, Min(100, RawBreakdownScore(p))),
     hasUppercase |-> HasUppercase(p),
     hasLowercase |-> HasLowercase(p),
     hasNumbers |-> HasNumbers(p),
     hasSymbols |-> HasSymbols(p)]

----------------------------------------------------------------------------
(* The strings the scorers are applied to: a pasted string followed by    *)
(* at most MaxTyped typed characters.                                      *)

Pasted ==
    { <<>>,
      <<"p","a","s","s","w","o","r","d">>,
      <<"T","r","0","u","b","4","d","o","r","&","9","!">>,
      <<"a","b","c","1","2","3">>,
      <<"X","y","9","!","k","L","p","2","Q","z">>,
      <<"a","a","a","b">>,
      <<"a","a","a","a","a","a">>,
      <<"a","a","a","a","a","a","a","a","a","a","a","a","a","a","a","a">>,
      <<"A","d","m","i","n">>,
      <<"Q","W","E","r","t","y","7">>,
      <<"1","2","3","4">>,
      <<"A","d","m","i","n","#","2","0","2","4","x","y">>,
      <<"x","y","z","w","x","y","z","w","x","y","z","w","x","y","z">>,
      <<"9","7","5","3","9","7","5","3","9","7","5">> }

Typed == {"a", "b", "c", "A", "1", "\\", "~", "!"}

RECURSIVE TypedStrings(_)
TypedStrings(n) ==
    IF n = 0 THEN {<<>>}
    ELSE LET shorter == TypedStrings(n - 1)
         IN shorter \cup {Append(s, c) : s \in {t \in shorter : Len(t) = n - 1}, c \in Typed}

PasswordInputs == {f \o t : f \in Pasted, t \in TypedStrings(MaxTyped)}

NotScored == [score |-> -1]

----------------------------------------------------------------------------
(* PasswordHealth: dates.  A date is [y, m, d] with the month m in 0..11,  *)
(* as Date.getMonth counts; all timestamps share one time of day.          *)

IsLeap(y) == (y % 4 = 0 /\ y % 100 # 0) \/ y % 400 = 0

DaysInMonth(y, m) ==
    IF m = 1 THEN (IF IsLeap(y) THEN 29 ELSE 28)
    ELSE IF m \in {3, 5, 8, 10} THEN 30 ELSE 31

\* sixMonthsAgo.setMonth(sixMonthsAgo.getMonth() - 6): a negative month counts
\* back from the previous year, and a day the target month does not have runs
\* over into the month after it
SixMonthsAgo(t) ==
    LET y == IF t.m - 6 < 0 THEN t.y - 1 ELSE t.y
        m == IF t.m - 6 < 0 THEN t.m + 6 ELSE t.m - 6
        dim == DaysInMonth(y, m)
    IN IF t.d <= dim THEN [y |-> y, m |-> m, d |-> t.d]
       ELSE [y |-> y, m |-> m + 1, d |-> t.d - dim]

\* (mutant) the comparison is not strict
MutBefore(a, b) ==
    \/ a.y < b.y
    \/ a.y = b.y /\ a.m < b.m
    \/ a.y = b.y /\ a.m = b.m /\ a.d <= b.d
\* updatedDate < sixMonthsAgo
Before(a, b) ==
    \/ a.y < b.y
    \/ a.y = b.y /\ a.m < b.m
    \/ a.y = b.y /\ a.m = b.m /\ a.d < b.d

----------------------------------------------------------------------------
(* PasswordHealth: the analysis.                                           *)

\* password.password || password.encryptedPassword
SecretOf(r) == IF r.password # <<>> THEN r.password ELSE r.encryptedPassword

ZeroStats ==
    [total |-> 0, weak |-> 0, duplicate |-> 0, old |-> 0, strong |-> 0,
     score |-> [num |-> 0, den |-> 1]]

\* (mutant) the weak threshold is the strong one
MutCountsWeak(score) == score < 80
\* line 68: if (strength.score < 60) stats.weak++
CountsWeak(score) == score < 60

\* line 70: else if (strength.score >= 80) stats.strong++
CountsStrong(score) == ~CountsWeak(score) /\ score >= 80

\* lines 64-87: the forEach over the records from index i on, with the counters
\* and the secrets seen so far (passwordValues)
RECURSIVE AnalyzeFrom(_, _, _, _, _)
AnalyzeFrom(list, i, stats, passwordValues, sixMonthsAgo) ==
    IF i > Len(list) THEN stats
    ELSE LET score == CalculatePasswordStrength(SecretOf(list[i])).score
             value == SecretOf(list[i])
             seen == value \in Range(passwordValues)
         IN AnalyzeFrom(list, i + 1,
                [stats EXCEPT
                    !.weak = @ + (IF CountsWeak(score) THEN 1 ELSE 0),
                    !.strong = @ + (IF CountsStrong(score) THEN 1 ELSE 0),
                    !.duplicate = @ + (IF seen THEN 1 ELSE 0),
                    !.old = @ + (IF Before(list[i].updatedAt, sixMonthsAgo) THEN 1 ELSE 0)],
                IF seen THEN passwordValues ELSE Append(passwordValues, value),
                sixMonthsAgo)

\* (mutant) the duplicate penalty has the weight of the weak penalty
MutOverallScore(stats) ==
    IF stats.total > 0
    THEN [num |-> Max(0, Min(100 * stats.total,
                    100 * stats.total - 40 * stats.weak - 40 * stats.duplicate
                    - 20 * stats.old + 10 * stats.strong)),
          den |-> stats.total]
    ELSE [num |-> 0, den |-> 1]
\* lines 89-97: the overall score, a fraction num/den:
\* max(0, min(100, 100 - 40 weak/total - 30 duplicate/total - 20 old/total
\*                  + 10 strong/total))
OverallScore(stats) ==
    IF stats.total > 0
    THEN [num |-> Max(0, Min(100 * stats.total,
                    100 * stats.total - 40 * stats.weak - 30 * stats.duplicate
                    - 20 * stats.old + 10 * stats.strong)),
          den |-> stats.total]
    ELSE [num |-> 0, den |-> 1]

\* analyzePasswordHealth(passwordList) at the time t
AnalyzePasswordHealth(list, t) ==
    LET counted == AnalyzeFrom(list, 1, [ZeroStats EXCEPT !.total = Len(list)],
                               <<>>, SixMonthsAgo(t))
    IN [counted EXCEPT !.score = OverallScore(counted)]

\* getWeakPasswords()
GetWeakPasswords(list) ==
    SelectSeq(list, LAMBDA r : CalculatePasswordStrength(SecretOf(r)).score < 60)

\* getOldPasswords() at the time t
GetOldPasswords(list, t) ==
    SelectSeq(list, LAMBDA r : Before(r.updatedAt, SixMonthsAgo(t)))

\* the digit a character of 0-9 stands for
DigitOf(c) == CHOOSE k \in 0..9 : NUMBERS[k + 1] = c

\* a < b for two strings of digits of the same length
DigitsBefore(a, b) ==
    \E i \in 1..Len(a) :
        /\ \A j \in 1..(i - 1) : a[j] = b[j]
        /\ DigitOf(a[i]) < DigitOf(b[i])

\* a <= b for two canonical decimal numerals
NumeralAtMost(a, b) ==
    \/ Len(a) < Len(b)
    \/ Len(a) = Len(b) /\ (a = b \/ DigitsBefore(a, b))

\* 2^32 - 2, the largest array index
MaxIndexKey == <<"4","2","9","4","9","6","7","2","9","4">>

\* an object key that is an array index: the canonical decimal numeral of an
\* integer in 0 .. 2^32 - 2
IsIndexKey(s) ==
    /\ Len(s) >= 1
    /\ \A i \in 1..Len(s) : s[i] \in NumberSet
    /\ (Len(s) > 1 => s[1] # "0")
    /\ NumeralAtMost(s, MaxIndexKey)

\* the distinct secrets of the list, in the order they are first met
RECURSIVE FirstSeen(_, _, _)
FirstSeen(list, i, keys) ==
    IF i > Len(list) THEN keys
    ELSE FirstSeen(list, i + 1,
            IF SecretOf(list[i]) \in Range(keys) THEN keys
            ELSE Append(keys, SecretOf(list[i])))

\* a sequence of index keys in ascending numeric order
RECURSIVE SortedIndexKeys(_)
SortedIndexKeys(keys) ==
    IF keys = {} THEN <<>>
    ELSE LET least == CHOOSE k \in keys :
                        \A other \in keys : NumeralAtMost(k, other)
         IN <<least>> \o SortedIndexKeys(keys \ {least})

\* Object.values(passwordGroups) visits the index keys in ascending numeric
\* order and then the other keys in the order they were created
KeyOrder(list) ==
    LET keys == FirstSeen(list, 1, <<>>)
    IN SortedIndexKeys({k \in Range(keys) : IsIndexKey(k)})
       \o SelectSeq(keys, LAMBDA k : ~IsIndexKey(k))

RECURSIVE FlatGroups(_, _, _)
FlatGroups(list, keys, i) ==
    IF i > Len(keys) THEN <<>>
    ELSE LET group == SelectSeq(list, LAMBDA r : SecretOf(r) = keys[i])
         IN (IF Len(group) > 1 THEN group ELSE <<>>) \o FlatGroups(list, keys, i + 1)

\* (mutant) the groups are not filtered by their size
MutGetDuplicatePasswords(list) ==
    LET keys == KeyOrder(list)
        RECURSIVE All(_)
        All(i) == IF i > Len(keys) THEN <<>>
                  ELSE SelectSeq(list, LAMBDA r : SecretOf(r) = keys[i]) \o All(i + 1)
    IN All(1)
\* getDuplicatePasswords()
GetDuplicatePasswords(list) == FlatGroups(list, KeyOrder(list), 1)

----------------------------------------------------------------------------
(* The vaults the store can return.                                        *)

MountClock == [y |-> 2024, m |-> 7, d |-> 31]
Clocks == { MountClock, [y |-> 2024, m |-> 11, d |-> 15],
            [y |-> 2024, m |-> 11, d |-> 16] }

\* two values of updatedAt: one before the six-month cutoff of every clock,
\* one at the cutoff of 15 December, which is before that of 16 December only
OldDate == [y |-> 2024, m |-> 2, d |-> 1]
RecentDate == [y |-> 2024, m |-> 5, d |-> 15]

\* a stored record: its password and encryptedPassword fields and updatedAt
Stored(p, e, u) == [password |-> p, encryptedPassword |-> e, updatedAt |-> u]

\* the records the store can hold: a weak secret (old and recent), a strong
\* one, one of medium strength, one that is an array index as an object key,
\* and a record whose password field repeats the weak secret
StoredRecords ==
    { Stored(<<>>, <<"a","b","c","1","2","3">>, OldDate),
      Stored(<<>>, <<"a","b","c","1","2","3">>, RecentDate),
      Stored(<<>>, <<"X","y","9","!","k","L","p","2","Q","z">>, RecentDate),
      Stored(<<>>, <<"X","y","9","k","L","p","2","Q">>, RecentDate),
      Stored(<<>>, <<"7">>, OldDate),
      Stored(<<"a","b","c","1","2","3">>, <<"U","2","F","s">>, RecentDate) }

RECURSIVE Vaults(_)
Vaults(n) ==
    IF n = 0 THEN {<<>>}
    ELSE LET shorter == Vaults(n - 1)
         IN shorter \cup {Append(v, r) : v \in {w \in shorter : Len(w) = n - 1},
                                         r \in StoredRecords}

\* the store gives every record its own id
WithIds(v) == [i \in 1..Len(v) |-> [id |-> i, password |-> v[i].password,
                                    encryptedPassword |-> v[i].encryptedPassword,
                                    updatedAt |-> v[i].updatedAt]]

----------------------------------------------------------------------------
(* JavaScript values.  A value is a record with one field that tells its   *)
(* type: [s |-> a string], [n |-> the digits of a number], [b |-> a        *)
(* boolean], [z |-> TRUE] for null, [u |-> TRUE] for undefined,            *)
(* [a |-> the elements of an array], [o |-> the <<key, value>> members of  *)
(* an object in insertion order].                                          *)

JStr(chars) == [s |-> chars]
JNum(digits) == [n |-> digits]
JBool(flag) == [b |-> flag]
JNull == [z |-> TRUE]
Undefined == [u |-> TRUE]
JArr(items) == [a |-> items]
JObj(members) == [o |-> members]

IsArray(v) == DOMAIN v = {"a"}
IsObject(v) == DOMAIN v = {"o"}

\* ToBoolean(v), the test of v || w: "", 0, false, null and undefined are
\* falsy, every array and object is truthy
Truthy(v) ==
    IF DOMAIN v = {"s"} THEN Len(v.s) > 0
    ELSE IF DOMAIN v = {"n"} THEN \E k \in 1..Len(v.n) : v.n[k] # "0"
    ELSE IF DOMAIN v = {"b"} THEN v.b
    ELSE DOMAIN v \in {{"a"}, {"o"}}

\* v || w
OrElse(v, w) == IF Truthy(v) THEN v ELSE w

\* item[key] of a parsed value: the last member of that name of an object,
\* undefined for a missing member and for a string, number, boolean or array
\* (none of the keys read here is an own property of those)
Get(item, key) ==
    IF DOMAIN item = {"o"}
    THEN LET hits == {k \in 1..Len(item.o) : item.o[k][1] = key}
         IN IF hits = {} THEN Undefined
            ELSE item.o[CHOOSE k \in hits : \A l \in hits : l <= k][2]
    ELSE Undefined

\* item.key throws a TypeError when item is null or undefined
GetThrows(item) == DOMAIN item \in {{"z"}, {"u"}}

\* the decimal numeral of a natural number
RECURSIVE ToDecimal(_)
ToDecimal(k) ==
    IF k < 10 THEN <<NUMBERS[k + 1]>>
    ELSE ToDecimal(k \div 10) \o <<NUMBERS[(k % 10) + 1]>>

----------------------------------------------------------------------------
(* JSON.parse, for texts of strings, non-negative integers without         *)
(* fraction or exponent, true, false, null, arrays and objects; of the     *)
(* string escapes, \" \\ \/ \n \r and \t.  A parse result is               *)
(* [ok, v, i]: whether the text parses, the value, and the index after it. *)

JsonWhiteSpace == {" ", "\t", "\n", "\r"}
JsonFail == [ok |-> FALSE, v |-> Undefined, i |-> 0]
JsonEscapes == [c \in {"\"", "\\", "/", "n", "r", "t"} |->
                   CASE c = "n" -> "\n" [] c = "r" -> "\r" [] c = "t" -> "\t"
                     [] OTHER -> c]

\* the index of the first character from i on that is not white space
RECURSIVE SkipWs(_, _)
SkipWs(t, i) ==
    IF i <= Len(t) /\ t[i] \in JsonWhiteSpace THEN SkipWs(t, i + 1) ELSE i

\* t from index i on starts with the word w
StartsAt(t, i, w) ==
    /\ i + Len(w) - 1 <= Len(t)
    /\ \A k \in 1..Len(w) : t[i + k - 1] = w[k]

\* the characters of a string literal from index i on (after the opening
\* quote), up to the closing quote
RECURSIVE ParseChars(_, _, _)
ParseChars(t, i, acc) ==
    IF i > Len(t) THEN JsonFail
    ELSE IF t[i] = "\"" THEN [ok |-> TRUE, v |-> JStr(acc), i |-> i + 1]
    ELSE IF t[i] = "\\"
         THEN IF i + 1 <= Len(t) /\ t[i + 1] \in DOMAIN JsonEscapes
              THEN ParseChars(t, i + 2, Append(acc, JsonEscapes[t[i + 1]]))
              ELSE JsonFail
    ELSE IF t[i] \in {"\n", "\r", "\t"} THEN JsonFail
    ELSE ParseChars(t, i + 1, Append(acc, t[i]))

\* the index after the digits from i on
RECURSIVE SkipDigits(_, _)
SkipDigits(t, i) ==
    IF i <= Len(t) /\ t[i] \in NumberSet THEN SkipDigits(t, i + 1) ELSE i

RECURSIVE ParseValue(_, _)
RECURSIVE ParseElements(_, _, _)
RECURSIVE ParseMembers(_, _, _)

\* the elements of an array from index i on, i being the start of an element
ParseElements(t, i, acc) ==
    LET e == ParseValue(t, i)
        j == SkipWs(t, e.i)
    IN IF ~e.ok \/ j > Len(t) THEN JsonFail
       ELSE IF t[j] = "]"
            THEN [ok |-> TRUE, v |-> JArr(Append(acc, e.v)), i |-> j + 1]
       ELSE IF t[j] = ","
            THEN ParseElements(t, SkipWs(t, j + 1), Append(acc, e.v))
       ELSE JsonFail

\* the members of an object from index i on, i being the start of a key
ParseMembers(t, i, acc) ==
    IF i > Len(t) \/ t[i] # "\"" THEN JsonFail
    ELSE LET k == ParseChars(t, i + 1, <<>>)
             c == SkipWs(t, k.i)
         IN IF ~k.ok \/ c > Len(t) \/ t[c] # ":" THEN JsonFail
            ELSE LET e == ParseValue(t, SkipWs(t, c + 1))
                     j == SkipWs(t, e.i)
                     members == Append(acc, <<k.v.s, e.v>>)
                 IN IF ~e.ok \/ j > Len(t) THEN JsonFail
                    ELSE IF t[j] = "}"
                         THEN [ok |-> TRUE, v |-> JObj(members), i |-> j + 1]
                    ELSE IF t[j] = ","
                         THEN ParseMembers(t, SkipWs(t, j + 1), members)
                    ELSE JsonFail

\* the value that starts at index i
ParseValue(t, i) ==
    IF i > Len(t) THEN JsonFail
    ELSE IF t[i] = "\"" THEN ParseChars(t, i + 1, <<>>)
    ELSE IF t[i] = "["
         THEN LET j == SkipWs(t, i + 1)
              IN IF j <= Len(t) /\ t[j] = "]"
                 THEN [ok |-> TRUE, v |-> JArr(<<>>), i |-> j + 1]
                 ELSE ParseElements(t, j, <<>>)
    ELSE IF t[i] = "{"
         THEN LET j == SkipWs(t, i + 1)
              IN IF j <= Len(t) /\ t[j] = "}"
                 THEN [ok |-> TRUE, v |-> JObj(<<>>), i |-> j + 1]
                 ELSE ParseMembers(t, j, <<>>)
    ELSE IF StartsAt(t, i, <<"n","u","l","l">>)
         THEN [ok |-> TRUE, v |-> JNull, i |-> i + 4]
    ELSE IF StartsAt(t, i, <<"t","r","u","e">>)
         THEN [ok |-> TRUE, v |-> JBool(TRUE), i |-> i + 4]
    ELSE IF StartsAt(t, i, <<"f","a","l","s","e">>)
         THEN [ok |-> TRUE, v |-> JBool(FALSE), i |-> i + 5]
    ELSE IF t[i] \in NumberSet
         THEN LET j == IF t[i] = "0" THEN i + 1 ELSE SkipDigits(t, i)
              IN [ok |-> TRUE, v |-> JNum(SubSeq(t, i, j - 1)), i |-> j]
    ELSE JsonFail

\* JSON.parse(text): one value with white space around it; ok = FALSE stands
\* for the SyntaxError
JsonParse(t) ==
    LET r == ParseValue(t, SkipWs(t, 1))
    IN IF r.ok /\ SkipWs(t, r.i) = Len(t) + 1 THEN r ELSE JsonFail

----------------------------------------------------------------------------
(* ImportPasswords: string helpers.                                        *)

\* the white space String.prototype.trim removes, as far as the inputs have it
WhiteSpace == {" ", "\t", "\n", "\r"}

\* s.trim()
RECURSIVE TrimStart(_)
TrimStart(s) ==
    IF Len(s) > 0 /\ s[1] \in WhiteSpace THEN TrimStart(Tail(s)) ELSE s
RECURSIVE TrimEnd(_)
TrimEnd(s) ==
    IF Len(s) > 0 /\ s[Len(s)] \in WhiteSpace
    THEN TrimEnd(SubSeq(s, 1, Len(s) - 1)) ELSE s
Trim(s) == TrimEnd(TrimStart(s))

\* s.toLowerCase()
ToLowerCase(s) == [k \in 1..Len(s) |-> FoldCase(s[k])]

\* s.endsWith(w)
EndsWith(s, w) ==
    Len(w) <= Len(s) /\ SubSeq(s, Len(s) - Len(w) + 1, Len(s)) = w

\* s.split(separator) for a separator of one character out of seps: the
\* pieces between the separators, empty ones included
Split(s, seps) ==
    LET cuts == {i \in 1..Len(s) : s[i] \in seps}
        starts == {1} \cup {c + 1 : c \in cuts}
        start(k) == CHOOSE p \in starts :
                        Cardinality({c \in cuts : c < p}) = k - 1
        end(p) == IF \E c \in cuts : c >= p
                  THEN (CHOOSE c \in cuts : c >= p /\ \A d \in cuts : d >= p => c <= d) - 1
                  ELSE Len(s)
    IN [k \in 1..(Cardinality(cuts) + 1) |-> SubSeq(s, start(k), end(start(k)))]

\* v.replace(/^"(.*)"$/, '$1'): a value between two double quotes loses
\* them; the dot matches no line terminator
Unquote(v) ==
    IF /\ Len(v) >= 2 /\ v[1] = "\"" /\ v[Len(v)] = "\""
       /\ \A k \in 2..(Len(v) - 1) : v[k] \notin LineTerminators
    THEN SubSeq(v, 2, Len(v) - 1) ELSE v

\* parts.join(' ')
RECURSIVE JoinSpace(_)
JoinSpace(parts) ==
    IF Len(parts) = 0 THEN <<>>
    ELSE IF Len(parts) = 1 THEN parts[1]
    ELSE parts[1] \o <<" ">> \o JoinSpace(Tail(parts))

\* array[index] of an array of strings, index counted from 0
At(array, index) ==
    IF index + 1 \in 1..Len(array) THEN JStr(array[index + 1]) ELSE Undefined

EmptyString == JStr(<<>>)
Personal == JStr(<<"P","e","r","s","o","n","a","l">>)
\* `Imported Password ${k}`
ImportedPassword(k) == JStr(<<"I","m","p","o","r","t","e","d"," ","P","a","s","s","w","o","r","d"," ">> \o ToDecimal(k))

\* text.split('\n').filter(line => line.trim())
NonEmptyLines(text) ==
    SelectSeq(Split(text, {"\n"}), LAMBDA line : Len(Trim(line)) > 0)

\* what a parser gives: the candidates it returns, or that it threw
Returned(list) == [threw |-> FALSE, passwords |-> list]
Threw == [threw |-> TRUE, passwords |-> <<>>]

----------------------------------------------------------------------------
(* ImportPasswords: parseJSON.                                             *)

\* (mutant) the title falls back to the numbered title before the name
MutJsonCandidate(item, index) ==
    [title |-> OrElse(Get(item, <<"t","i","t","l","e">>), ImportedPassword(index + 1)),
     username |-> OrElse(Get(item, <<"u","s","e","r","n","a","m","e">>),
                         OrElse(Get(item, <<"u","s","e","r">>), EmptyString)),
     email |-> OrElse(Get(item, <<"e","m","a","i","l">>), EmptyString),
     password |-> OrElse(Get(item, <<"p","a","s","s","w","o","r","d">>), EmptyString),
     websiteUrl |-> OrElse(Get(item, <<"w","e","b","s","i","t","e","U","r","l">>),
                           OrElse(Get(item, <<"u","r","l">>),
                                  OrElse(Get(item, <<"w","e","b","s","i","t","e">>), EmptyString))),
     category |-> OrElse(Get(item, <<"c","a","t","e","g","o","r","y">>), Personal),
     notes |-> OrElse(Get(item, <<"n","o","t","e","s">>),
                      OrElse(Get(item, <<"n","o","t","e">>), EmptyString))]
\* lines 84-92: the candidate of the element item at the index
JsonCandidate(item, index) ==
    [title |-> OrElse(Get(item, <<"t","i","t","l","e">>),
                      OrElse(Get(item, <<"n","a","m","e">>), ImportedPassword(index + 1))),
     username |-> OrElse(Get(item, <<"u","s","e","r","n","a","m","e">>),
                         OrElse(Get(item, <<"u","s","e","r">>), EmptyString)),
     email |-> OrElse(Get(item, <<"e","m","a","i","l">>), EmptyString),
     password |-> OrElse(Get(item, <<"p","a","s","s","w","o","r","d">>), EmptyString),
     websiteUrl |-> OrElse(Get(item, <<"w","e","b","s","i","t","e","U","r","l">>),
                           OrElse(Get(item, <<"u","r","l">>),
                                  OrElse(Get(item, <<"w","e","b","s","i","t","e">>), EmptyString))),
     category |-> OrElse(Get(item, <<"c","a","t","e","g","o","r","y">>), Personal),
     notes |-> OrElse(Get(item, <<"n","o","t","e","s">>),
                      OrElse(Get(item, <<"n","o","t","e">>), EmptyString))]

\* parseJSON(text): the SyntaxError of JSON.parse, the Error of line 81 and
\* the TypeError of reading a property of null all leave the function
ParseJSON(text) ==
    LET data == JsonParse(text)
    IN IF ~data.ok THEN Threw
       ELSE IF ~IsArray(data.v) THEN Threw
       ELSE IF \E k \in 1..Len(data.v.a) : GetThrows(data.v.a[k]) THEN Threw
       ELSE Returned([k \in 1..Len(data.v.a) |->
                          JsonCandidate(data.v.a[k], k - 1)])

----------------------------------------------------------------------------
(* ImportPasswords: parseCSV.                                              *)

\* (mutant) the switch lacks case 'website'
MutCsvField(header) ==
    IF header \in {<<"t","i","t","l","e">>, <<"n","a","m","e">>, <<"s","i","t","e">>} THEN "title"
    ELSE IF header \in {<<"u","s","e","r","n","a","m","e">>, <<"u","s","e","r">>} THEN "username"
    ELSE IF header = <<"e","m","a","i","l">> THEN "email"
    ELSE IF header = <<"p","a","s","s","w","o","r","d">> THEN "password"
    ELSE IF header \in {<<"u","r","l">>, <<"w","e","b","s","i","t","e","u","r","l">>} THEN "websiteUrl"
    ELSE IF header \in {<<"c","a","t","e","g","o","r","y">>, <<"f","o","l","d","e","r">>} THEN "category"
    ELSE IF header \in {<<"n","o","t","e","s">>, <<"n","o","t","e">>} THEN "notes"
    ELSE ""
\* lines 115-143: the field a header names, "" for any other header
CsvField(header) ==
    IF header \in {<<"t","i","t","l","e">>, <<"n","a","m","e">>, <<"s","i","t","e">>} THEN "title"
    ELSE IF header \in {<<"u","s","e","r","n","a","m","e">>, <<"u","s","e","r">>} THEN "username"
    ELSE IF header = <<"e","m","a","i","l">> THEN "email"
    ELSE IF header = <<"p","a","s","s","w","o","r","d">> THEN "password"
    ELSE IF header \in {<<"u","r","l">>, <<"w","e","b","s","i","t","e">>, <<"w","e","b","s","i","t","e","u","r","l">>} THEN "websiteUrl"
    ELSE IF header \in {<<"c","a","t","e","g","o","r","y">>, <<"f","o","l","d","e","r">>} THEN "category"
    ELSE IF header \in {<<"n","o","t","e","s">>, <<"n","o","t","e">>} THEN "notes"
    ELSE ""

\* lines 112-145: headers.forEach from the header at index on
RECURSIVE ApplyHeaders(_, _, _, _)
ApplyHeaders(headers, values, index, candidate) ==
    IF index >= Len(headers) THEN candidate
    ELSE LET value == OrElse(At(values, index), EmptyString)
             field == CsvField(headers[index + 1])
         IN ApplyHeaders(headers, values, index + 1,
                IF field = "" THEN candidate
                ELSE IF field = "category"
                     THEN [candidate EXCEPT !.category = OrElse(value, Personal)]
                ELSE [candidate EXCEPT ![field] = value])

\* lines 105-149: the candidate of the line at index i of lines
CsvCandidate(headers, line, i) ==
    LET split == Split(line, {","})
        values == [k \in 1..Len(split) |-> Unquote(Trim(split[k]))]
        filled == ApplyHeaders(headers, values, 0,
                      [title |-> EmptyString, username |-> Undefined,
                       email |-> Undefined, password |-> EmptyString,
                       websiteUrl |-> Undefined, category |-> Personal,
                       notes |-> Undefined])
    IN IF Truthy(filled.title) THEN filled
       ELSE [filled EXCEPT
                !.title = OrElse(filled.websiteUrl, ImportedPassword(i))]

\* (mutant) every row is kept
MutCsvKeeps(candidate) == TRUE
\* line 151: if (password.password)
CsvKeeps(candidate) == Truthy(candidate.password)

\* lines 104-154: the loop from the line at index i on
RECURSIVE CsvRows(_, _, _)
CsvRows(headers, lines, i) ==
    IF i >= Len(lines) THEN <<>>
    ELSE LET candidate == CsvCandidate(headers, lines[i + 1], i)
         IN (IF CsvKeeps(candidate) THEN <<candidate>> ELSE <<>>)
            \o CsvRows(headers, lines, i + 1)

\* (mutant) a header row alone is enough
MutCsvTooShort(lines) == Len(lines) < 1
\* line 97
CsvTooShort(lines) == Len(lines) < 2

\* parseCSV(text)
ParseCSV(text) ==
    LET lines == NonEmptyLines(text)
    IN IF CsvTooShort(lines) THEN Threw
       ELSE LET split == Split(lines[1], {","})
                headers == [k \in 1..Len(split) |-> ToLowerCase(Trim(split[k]))]
            IN Returned(CsvRows(headers, lines, 1))

----------------------------------------------------------------------------
(* ImportPasswords: parseGeneric.                                          *)

\* (mutant) a line needs three parts
MutGenericLine(line, index) ==
    LET split == Split(line, {"\t", ",", ";"})
        parts == [k \in 1..Len(split) |-> Trim(split[k])]
    IN IF Len(parts) >= 3
       THEN << [title |-> OrElse(At(parts, 0), ImportedPassword(index + 1)),
                username |-> OrElse(At(parts, 1), EmptyString),
                email |-> Undefined,
                password |-> OrElse(At(parts, 2), At(parts, 1)),
                websiteUrl |-> OrElse(At(parts, 3), EmptyString),
                category |-> Personal,
                notes |-> JStr(JoinSpace(SubSeq(parts, 5, Len(parts))))] >>
       ELSE <<>>
\* lines 166-176: the candidates (none or one) of the line at the index
GenericLine(line, index) ==
    LET split == Split(line, {"\t", ",", ";"})
        parts == [k \in 1..Len(split) |-> Trim(split[k])]
    IN IF Len(parts) >= 2
       THEN << [title |-> OrElse(At(parts, 0), ImportedPassword(index + 1)),
                username |-> OrElse(At(parts, 1), EmptyString),
                email |-> Undefined,
                password |-> OrElse(At(parts, 2), At(parts, 1)),
                websiteUrl |-> OrElse(At(parts, 3), EmptyString),
                category |-> Personal,
                notes |-> JStr(JoinSpace(SubSeq(parts, 5, Len(parts))))] >>
       ELSE <<>>

RECURSIVE GenericLines(_, _)
GenericLines(lines, index) ==
    IF index >= Len(lines) THEN <<>>
    ELSE GenericLine(lines[index + 1], index) \o GenericLines(lines, index + 1)

\* parseGeneric(text)
ParseGeneric(text) == Returned(GenericLines(NonEmptyLines(text), 0))

----------------------------------------------------------------------------
(* ImportPasswords: parseFile, the choice of the parser.                   *)

\* (mutant) the extension is compared as written
MutParserFor(name) ==
    IF EndsWith(name, <<".","j","s","o","n">>) THEN "json"
    ELSE IF EndsWith(name, <<".","c","s","v">>) THEN "csv"
    ELSE "generic"
\* lines 187-193
ParserFor(name) ==
    IF EndsWith(ToLowerCase(name), <<".","j","s","o","n">>) THEN "json"
    ELSE IF EndsWith(ToLowerCase(name), <<".","c","s","v">>) THEN "csv"
    ELSE "generic"

\* lines 184-193: the parser's outcome for the file
ParseWith(parser, text) ==
    IF parser = "json" THEN ParseJSON(text)
    ELSE IF parser = "csv" THEN ParseCSV(text)
    ELSE ParseGeneric(text)

\* lines 217-218: the extension handleFileSelect tests,
\* name.toLowerCase().substring(name.lastIndexOf('.')); lastIndexOf gives -1
\* for a name without a dot and substring(-1) is the whole name
FileExtension(name) ==
    LET dots == {k \in 1..Len(name) : name[k] = "."}
        lower == ToLowerCase(name)
    IN IF dots = {} THEN lower
       ELSE SubSeq(lower, CHOOSE k \in dots : \A l \in dots : l <= k, Len(name))

ValidTypes == {<<".","c","s","v">>, <<".","j","s","o","n">>, <<".","t","x","t">>}

----------------------------------------------------------------------------
(* JSON.stringify(value, null, 2), and the ISO form of a date.             *)

\* the escapes of the characters JSON.stringify quotes, as far as the
\* strings of the model have them
QuoteEscapes == [c \in {"\"", "\\", "\n", "\r", "\t"} |->
                    CASE c = "\n" -> <<"\\", "n">> [] c = "\r" -> <<"\\", "r">>
                      [] c = "\t" -> <<"\\", "t">> [] OTHER -> <<"\\", c>>]

\* the string literal of a string
RECURSIVE QuoteFrom(_, _)
QuoteFrom(chars, i) ==
    IF i > Len(chars) THEN <<"\"">>
    ELSE (IF chars[i] \in DOMAIN QuoteEscapes THEN QuoteEscapes[chars[i]]
          ELSE <<chars[i]>>) \o QuoteFrom(chars, i + 1)
Quote(chars) == <<"\"">> \o QuoteFrom(chars, 1)

\* an indentation of k spaces
Spaces(k) == [j \in 1..k |-> " "]

RECURSIVE Stringify(_, _)
RECURSIVE StringifyItems(_, _, _)
RECURSIVE StringifyMembers(_, _, _)

\* the elements of an array from index i on, one per line at the indentation
\* k; undefined is written as null
StringifyItems(items, i, k) ==
    Spaces(k)
    \o (IF items[i] = Undefined THEN <<"n","u","l","l">> ELSE Stringify(items[i], k))
    \o (IF i = Len(items) THEN <<>>
        ELSE <<",", "\n">> \o StringifyItems(items, i + 1, k))

\* the members of an object from index i on, one per line
StringifyMembers(members, i, k) ==
    Spaces(k) \o Quote(members[i][1]) \o <<":", " ">>
    \o Stringify(members[i][2], k)
    \o (IF i = Len(members) THEN <<>>
        ELSE <<",", "\n">> \o StringifyMembers(members, i + 1, k))

\* the text of the value v that stands at the indentation k; a member whose
\* value is undefined is left out
Stringify(v, k) ==
    IF DOMAIN v = {"s"} THEN Quote(v.s)
    ELSE IF DOMAIN v = {"n"} THEN v.n
    ELSE IF DOMAIN v = {"b"} THEN (IF v.b THEN <<"t","r","u","e">> ELSE <<"f","a","l","s","e">>)
    ELSE IF DOMAIN v = {"z"} THEN <<"n","u","l","l">>
    ELSE IF DOMAIN v = {"a"}
         THEN IF Len(v.a) = 0 THEN <<"[", "]">>
              ELSE <<"[", "\n">> \o StringifyItems(v.a, 1, k + 2)
                   \o <<"\n">> \o Spaces(k) \o <<"]">>
    ELSE LET members == SelectSeq(v.o, LAMBDA m : m[2] # Undefined)
         IN IF Len(members) = 0 THEN <<"{", "}">>
            ELSE <<"{", "\n">> \o StringifyMembers(members, 1, k + 2)
                 \o <<"\n">> \o Spaces(k) \o <<"}">>

\* the numeral of k in two digits
TwoDigits(k) == <<NUMBERS[(k \div 10) + 1], NUMBERS[(k % 10) + 1]>>

\* date.toISOString().split('T')[0]
IsoDay(t) ==
    ToDecimal(t.y) \o <<"-">> \o TwoDigits(t.m + 1) \o <<"-">> \o TwoDigits(t.d)

\* date.toISOString(), every timestamp of the model being at midnight UTC
ToISOString(t) == IsoDay(t) \o <<"T","0","0",":","0","0",":","0","0",".","0","0","0","Z">>

----------------------------------------------------------------------------
(* ImportPasswords and the export of SettingsPanel: values of the state.   *)

\* a File: its name, its text and its size
File(name, text) == [name |-> name, text |-> text, size |-> Len(text)]
NoFile == [name |-> <<>>, text |-> <<>>, size |-> -1]

\* line 230: the size limit, 10 * 1024 * 1024
MaxFileSize == 10485760

\* importResult before any run, and the result a run starts with (lines 251-256)
NoResult == [total |-> -1, successful |-> 0, failed |-> 0, errors |-> <<>>]
NewResult(list) ==
    [total |-> Len(list), successful |-> 0, failed |-> 0, errors |-> <<>>]

\* handleImport before its first run.  pending holds the indices of the
\* creates in flight; fresh says that list is the preview on the screen, and
\* created lists the indices of that preview's candidates in the order their
\* creates succeeded, over all runs since the preview was set
NoCommit == [pc |-> "idle", list |-> <<>>, i |-> 0, result |-> NoResult,
             attempts |-> <<>>, pending |-> {}, fresh |-> FALSE,
             created |-> <<>>]

\* progress is 100 * num / den
NoProgress == [num |-> 0, den |-> 1]

\* lines 262-277: the record handleImport creates for a candidate; id,
\* userId, isFavorite and lastUsed are read by no operation of the model
CreatedRecord(c, t) ==
    [title |-> c.title,
     username |-> OrElse(c.username, EmptyString),
     email |-> OrElse(c.email, EmptyString),
     password |-> c.password,
     encryptedPassword |-> c.password,
     websiteUrl |-> OrElse(c.websiteUrl, EmptyString),
     category |-> c.category,
     notes |-> OrElse(c.notes, EmptyString),
     createdAt |-> JStr(ToISOString(t)),
     updatedAt |-> JStr(ToISOString(t))]

\* SettingsPanel lines 104-113: the object exported for a stored record
ExportedPassword(p) ==
    JObj(<< <<<<"t","i","t","l","e">>, p.title>>, <<<<"u","s","e","r","n","a","m","e">>, p.username>>,
            <<<<"e","m","a","i","l">>, p.email>>, <<<<"p","a","s","s","w","o","r","d">>, p.password>>,
            <<<<"w","e","b","s","i","t","e","U","r","l">>, p.websiteUrl>>, <<<<"c","a","t","e","g","o","r","y">>, p.category>>,
            <<<<"n","o","t","e","s">>, p.notes>>, <<<<"c","r","e","a","t","e","d","A","t">>, p.createdAt>> >>)

\* SettingsPanel lines 101-114: exportData
ExportData(list, t) ==
    JObj(<< <<<<"e","x","p","o","r","t","e","d","_","a","t">>, JStr(ToISOString(t))>>,
            <<<<"v","e","r","s","i","o","n">>, JStr(<<"1",".","0">>)>>,
            <<<<"p","a","s","s","w","o","r","d","s">>,
              JArr([k \in 1..Len(list) |-> ExportedPassword(list[k])])>> >>)

\* SettingsPanel lines 116-124: the file the export downloads
ExportFile(list, t) ==
    File(<<"s","e","c","u","r","e","v","a","u","l","t","-","e","x","p","o","r","t","-">> \o IsoDay(t) \o <<".","j","s","o","n">>,
         Stringify(ExportData(list, t), 0))

NoExport == [file |-> NoFile, passwords |-> <<>>]

----------------------------------------------------------------------------
(* The files of the import screen.                                         *)

\* the texts of a few elements of a JSON array
JsonElementTexts ==
    { <<"{","\"","n","a","m","e","\"",":","\"","G","m","a","i","l",
           "\"",",","\"","p","a","s","s","w","o","r","d","\"",":","\"",
           "x","\"","}">>,
      <<"{","\"","t","i","t","l","e","\"",":"," ","\"","T","\"",",",
           " ","\"","n","a","m","e","\"",":"," ","\"","N","\"",","," ",
           "\"","u","s","e","r","n","a","m","e","\"",":"," ","\"","u",
           "\"",","," ","\"","e","m","a","i","l","\"",":"," ","\"","e",
           "\"",",","\n"," ","\"","p","a","s","s","w","o","r","d","\"",
           ":"," ","\"","p","\"",","," ","\"","w","e","b","s","i","t",
           "e","U","r","l","\"",":"," ","\"","w","\"",","," ","\"","c",
           "a","t","e","g","o","r","y","\"",":"," ","\"","W","o","r",
           "k","\"",","," ","\"","n","o","t","e","s","\"",":"," ","\"",
           "n","\"","}">>,
      <<"{","\"","t","i","t","l","e","\"",":","\"","\"",",","\"","u",
           "s","e","r","\"",":","\"","v","\"",",","\"","u","r","l","\"",
           ":","\"","\"",",","\"","w","e","b","s","i","t","e","\"",":",
           "\"","s",".","i","o","\"",",","\"","n","o","t","e","\"",":",
           "\"","m","\"",",","\"","c","a","t","e","g","o","r","y","\"",
           ":","\"","\"","}">> }

\* the texts of a few lines of a CSV file
CsvHeaderLines ==
    { <<"t","i","t","l","e",",","u","s","e","r","n","a","m","e",",",
           "p","a","s","s","w","o","r","d",",","u","r","l",",","n","o",
           "t","e","s">>,
      <<" ","N","a","m","e"," ",",","U","R","L",",","P","a","s","s",
           "w","o","r","d",",","F","o","l","d","e","r",",","x",",","U",
           "s","e","r">> }
CsvRowLines ==
    { <<"G","m","a","i","l",",","j","o","h","n",",","p","w","1",",",
           "g",".","c","o","m",",","W","o","r","k">>,
      <<"F","b",",","j","o","h","n",",",",","f",".","c","o","m",",",
           "x",",","y">>,
      <<"\"","T","w","\"",","," ","t",".","c","o"," ",",","\"","p",
           "w","3","\"">> }

\* a header row and two data rows for the other header names
SynonymHeaderLines ==
    { <<"S","i","t","e",",","W","e","b","s","i","t","e",",","P","A","S",
           "S","W","O","R","D",",","C","a","t","e","g","o","r","y",",",
           "E","m","a","i","l",",","N","o","t","e">>,
      <<"w","e","b","s","i","t","e","u","r","l",","," ","T","i","t","l",
           "e"," ",",","p","a","s","s","w","o","r","d",",","n","o","t",
           "e">> }
SynonymRowLines ==
    { <<"\"","\"",",","s",".","i","o",",","p","w","4",",",",","n">>,
      <<",",",","\"","p","w","5","\"",",","\"","W","\"">> }

\* the sequences of at most n members of a set
RECURSIVE SeqsUpTo(_, _)
SeqsUpTo(S, n) ==
    IF n = 0 THEN {<<>>}
    ELSE LET shorter == SeqsUpTo(S, n - 1)
         IN shorter \cup {Append(q, x) : q \in shorter, x \in S}

\* the members of a sequence of strings with sep between them
RECURSIVE Joined(_, _)
Joined(parts, sep) ==
    IF Len(parts) = 0 THEN <<>>
    ELSE IF Len(parts) = 1 THEN parts[1]
    ELSE parts[1] \o sep \o Joined(Tail(parts), sep)

\* JSON arrays of at most MaxRecords elements, a JSON object, a number,
\* a truncated text and an array with null in it
JsonTexts ==
    {<<"[">> \o Joined(q, <<",">>) \o <<"]">> : q \in SeqsUpTo(JsonElementTexts, MaxRecords)}
    \cup { <<"{","\"","p","a","s","s","w","o","r","d","s","\"",":","[","]","}">>, <<"7">>, <<"[","{","\"","t","i","t","l","e","\"",":","\"","A","\"">>, <<"[","{","\"","n","a","m","e","\"",":","\"","G","m","a","i","l","\"",",","\"","p","a","s","s","w","o","r","d","\"",":","\"","x","\"","}",",","n","u","l","l","]">> }

\* CSV files of a header row and at most MaxRecords data rows, and the
\* empty file
CsvTexts ==
    {Joined(<<h>> \o q, <<"\n">>) : h \in CsvHeaderLines, q \in SeqsUpTo(CsvRowLines, MaxRecords)}
    \cup {Joined(<<h>> \o q, <<"\n">>) : h \in SynonymHeaderLines,
                                         q \in SeqsUpTo(SynonymRowLines, MaxRecords)}
    \cup { <<>> }

\* lines of a text file, with tab, comma and semicolon between the tokens
GenericLineTexts ==
    { <<"G","h",";","b","o","b","\t","p","w","6",","," ","g",".","i","o",
           " ",";","a",";","b">>,
      <<"s","o","l","o">>,
      <<"x",";","y">>,
      <<";","u",";",";","w">> }

\* text files of at most MaxRecords lines
GenericTexts ==
    {Joined(q, <<"\n">>) : q \in SeqsUpTo(GenericLineTexts, MaxRecords)}

\* names of the accepted types (line 217), in several letter cases
FileNames ==
    { <<"a",".","j","s","o","n">>, <<"A",".","J","S","O","N">>, <<"a",".","c","s","v">>, <<"b",".","C","s","v">>, <<"c","s","v",".","j","s","o","n",".","t","x","t">> }

\* the files whose parsing is checked
ParseInputs ==
    {File(n, t) : n \in FileNames, t \in JsonTexts \cup CsvTexts \cup GenericTexts}

\* the files the user of the import screen has at hand
ImportFiles ==
    { File(<<"a",".","j","s","o","n">>, <<"[","{","\"","n","a","m","e","\"",":","\"","G","m","a","i","l","\"",",","\"","p","a","s","s","w","o","r","d","\"",":","\"","x","\"","}",",","{","\"","t","i","t","l","e","\"",":","\"","T","\"",",","\"","p","a","s","s","w","o","r","d","\"",":","\"","\"","}",",","{","\"","p","a","s","s","w","o","r","d","\"",":","\"","q","\"","}","]">>),
      File(<<"A",".","J","S","O","N">>, <<"{","\"","p","a","s","s","w","o","r","d","s","\"",":","[","]","}">>),
      File(<<"a",".","c","s","v">>, <<"t","i","t","l","e",",","u","s","e","r","n","a","m","e",",","p","a","s","s","w","o","r","d",",","u","r","l",",","n","o","t","e","s","\n","G","m","a","i","l",",","j","o","h","n",",","p","w","1",",","g",".","c","o","m",",","W","o","r","k","\n","F","b",",","j","o","h","n",",",",","f",".","c","o","m",",","x","\n">>),
      File(<<"a",".","p","d","f">>, <<"t",",","u",",","p">>),
      [name |-> <<"b","i","g",".","c","s","v">>, text |-> <<>>, size |-> MaxFileSize + 1] }

\* what the preview can hold when a file is selected: nothing, or the
\* candidates of a file parsed before
PreviousPreviews ==
    { <<>>, ParseJSON(<<"[","{","\"","n","a","m","e","\"",":","\"","G","m","a","i","l","\"",",","\"","p","a","s","s","w","o","r","d","\"",":","\"","x","\"","}","]">>).passwords }

\* candidates of earlier imports
EarlierCandidates ==
    { JsonCandidate(JObj(<< <<<<"n","a","m","e">>, JStr(<<"G","m","a","i","l">>)>>,
                            <<<<"p","a","s","s","w","o","r","d">>, JStr(<<"x","\"","y">>)>> >>), 0),
      JsonCandidate(JObj(<< <<<<"t","i","t","l","e">>, JStr(<<"T">>)>>, <<<<"u","s","e","r">>, JStr(<<"u">>)>>,
                            <<<<"e","m","a","i","l">>, JStr(<<"e">>)>>, <<<<"p","a","s","s","w","o","r","d">>, JStr(<<"p">>)>>,
                            <<<<"u","r","l">>, JStr(<<"w",".","i","o">>)>>, <<<<"c","a","t","e","g","o","r","y">>, JStr(<<"W","o","r","k">>)>>,
                            <<<<"n","o","t","e">>, JStr(<<"n"," ","1">>)>> >>), 1) }

\* the records the store holds when the export is asked for: at most
\* MaxStore records that earlier imports created
InitialStores ==
    SeqsUpTo({CreatedRecord(c, MountClock) : c \in EarlierCandidates}, MaxStore)

----------------------------------------------------------------------------
(* EncryptionService.                                                      *)

\* the callers of EncryptionService.getInstance()
Callers == {1, 2}

\* master passwords, plaintexts
MasterPasswords == {<<>>, <<"m">>, <<"n">>}
Plaintexts == {<<>>, <<"s">>, <<"t">>}

\* CryptoJS.PBKDF2(masterPassword, 'securevault-salt', {...}).toString(): a
\* string of 64 hexadecimal digits that the master password determines; the
\* model keeps the password it is derived from
DerivedKey(masterPassword) == JStr(<<"k">> \o masterPassword)

\* CryptoJS.AES.encrypt(plaintext, key).toString(): of the ciphertext the
\* model keeps what it encrypts and under which key
Ciphertext(plaintext, key) == [plain |-> plaintext, key |-> key]

\* the strings handed to decrypt: ciphertexts of the service, and a text
\* that is none
Junk == [plain |-> <<>>, key |-> JStr(<<>>)]
Ciphertexts ==
    {Ciphertext(p, DerivedKey(m)) : p \in Plaintexts, m \in MasterPasswords}
    \cup {Junk}

\* what a call gave
NoCall == [op |-> "none", by |-> 0, outcome |-> "none", value |-> JNull]
ReturnedTo(op, c, value) ==
    [op |-> op, by |-> c, outcome |-> "returned", value |-> value]
ThrewTo(op, c, message) ==
    [op |-> op, by |-> c, outcome |-> "threw", value |-> message]

\* !this.masterKey
KeyMissing(key) == ~Truthy(key)

\* this.masterKey !== null
KeyNotNull(key) == DOMAIN key # {"z"}

----------------------------------------------------------------------------
(* The state machine.                                                      *)

\* callers hold the options of a generate call and a string to score;
\* PasswordHealth is mounted: useState([]), useState({total: 0, ...}),
\* useState(true); ImportPasswords is mounted (lines 46-52) and nothing has
\* been exported
Init ==
    /\ genOptions \in GeneratorOptions
    /\ genOutcome = "none"
    /\ genPassword = <<>>
    /\ password \in PasswordInputs
    /\ strength = NotScored
    /\ breakdown = NotScored
    /\ now \in Clocks
    /\ loading = TRUE
    /\ passwords = <<>>
    /\ healthStats = ZeroStats
    /\ activeTab = "upload"
    /\ file = NoFile
    /\ importing = FALSE
    /\ importResult = NoResult
    /\ previewData = <<>>
    /\ progress = NoProgress
    /\ reading = {}
    /\ commit = NoCommit
    /\ store \in InitialStores
    /\ exported = NoExport
    /\ instance = 0
    /\ masterKey = <<>>
    /\ held = [c \in Callers |-> 0]
    /\ lastCall = NoCall
    /\ keySet = FALSE

\* PasswordGenerator.generate(genOptions)
Generate ==
    /\ genOutcome = "none"
    /\ IF Throws(genOptions)
       THEN /\ genOutcome' = "threw"
            /\ genPassword' = genPassword
       ELSE \E draws \in [1..DrawCount(genOptions) -> 0..(RandomGrain - 1)] :
                LET pw == Unshuffled(genOptions, draws)
                IN \E perm \in Perms(Len(pw)) :
                       /\ genOutcome' = "returned"
                       /\ genPassword' = Shuffled(pw, perm)
    /\ UNCHANGED <<genOptions, scoreVars, healthVars, importVars, encVars>>

\* PasswordGenerator.analyzeStrength(password)
AnalyzeStrengthCall ==
    /\ strength = NotScored
    /\ strength' = AnalyzeStrength(password)
    /\ UNCHANGED <<password, breakdown, genVars, healthVars, importVars, encVars>>

\* calculatePasswordStrength(password)
CalculatePasswordStrengthCall ==
    /\ breakdown = NotScored
    /\ breakdown' = CalculatePasswordStrength(password)
    /\ UNCHANGED <<password, strength, genVars, healthVars, importVars, encVars>>

\* loadPasswords, lines 103-122, when the store answers with a list
LoadPasswords ==
    /\ loading
    /\ \E v \in Vaults(MaxVault) :
           /\ passwords' = WithIds(v)
           /\ healthStats' = AnalyzePasswordHealth(WithIds(v), now)
    /\ loading' = FALSE
    /\ UNCHANGED <<now, genVars, scoreVars, importVars, encVars>>

\* loadPasswords when blink.auth.me or the list call rejects: the catch and
\* the finally
LoadPasswordsFailed ==
    /\ loading
    /\ loading' = FALSE
    /\ UNCHANGED <<now, passwords, healthStats, genVars, scoreVars, importVars, encVars>>

\* the wall clock moves on while the health screen shows the loaded vault;
\* every later render calls new Date() again (line 149)
TimePasses ==
    /\ ~loading
    /\ \E t \in Clocks :
           /\ Before(now, t)
           /\ now' = t
    /\ UNCHANGED <<loading, passwords, healthStats, genVars, scoreVars,
                   importVars, encVars>>

\* the tab a trigger of the tab list (lines 369-372) or a button lets the
\* user go to: Upload always, Preview and Import when there are candidates,
\* Results when a run has finished; "Back to Preview" (line 552) and
\* "Import More" (line 603) stand on the Import and Results tabs
TabEnabled(tab) ==
    \/ tab = "upload"
    \/ tab \in {"preview", "import"} /\ Len(previewData) > 0
    \/ tab = "result" /\ importResult # NoResult
    \/ tab = "preview" /\ activeTab = "import"

\* onValueChange={setActiveTab} and the two buttons
SetActiveTab ==
    /\ \E tab \in {"upload", "preview", "import", "result"} :
           /\ tab # activeTab
           /\ TabEnabled(tab)
           /\ activeTab' = tab
    /\ UNCHANGED <<file, importing, importResult, previewData, progress,
                   reading, commit, store, exported>>
    /\ UNCHANGED <<genVars, scoreVars, healthVars, encVars>>

\* handleFileSelect, lines 212-241, for a file of the user or the exported
\* one; the input stands on the Upload tab.  A file of another type or above
\* the size limit is answered with a toast only (toasts are not part of the
\* state); for any other, parseFile runs up to its await file.text()
HandleFileSelect ==
    /\ activeTab = "upload"
    /\ Cardinality(reading) < MaxReads
    /\ \E f \in ImportFiles
                \cup (IF exported = NoExport THEN {} ELSE {exported.file}) :
           IF FileExtension(f.name) \notin ValidTypes
           THEN UNCHANGED <<file, reading>>
           ELSE IF f.size > MaxFileSize
           THEN UNCHANGED <<file, reading>>
           ELSE /\ file' = f
                /\ reading' = reading \cup {f}
    /\ UNCHANGED <<activeTab, importing, importResult, previewData, progress,
                   commit, store, exported>>
    /\ UNCHANGED <<genVars, scoreVars, healthVars, encVars>>

\* parseFile from the resolution of file.text() on, lines 184-209
ParseFileDone ==
    /\ \E f \in reading :
           LET by == ParserFor(f.name)
               outcome == ParseWith(by, f.text)
           IN /\ reading' = reading \ {f}
              /\ IF outcome.threw
                 THEN UNCHANGED <<previewData, activeTab, commit>>
                 ELSE /\ previewData' = outcome.passwords
                      /\ activeTab' = "preview"
                      /\ commit' = [commit EXCEPT !.fresh = FALSE,
                                                  !.created = <<>>]
    /\ UNCHANGED <<file, importing, importResult, progress, store, exported>>
    /\ UNCHANGED <<genVars, scoreVars, healthVars, encVars>>

\* handleImport, lines 243-250, up to its await blink.auth.me(); the button
\* stands on the Import tab and is disabled while importing (line 547).  With
\* no candidates the handler returns at once (line 244).
HandleImport ==
    /\ activeTab = "import"
    /\ ~importing
    /\ Len(store) + Len(previewData) <= MaxStore
    /\ IF Len(previewData) = 0
       THEN UNCHANGED <<importing, progress, commit>>
       ELSE /\ importing' = TRUE
            /\ progress' = NoProgress
            /\ commit' = [pc |-> "auth", list |-> previewData, i |-> 0,
                          result |-> NoResult, attempts |-> <<>>,
                          pending |-> {}, fresh |-> TRUE,
                          created |-> commit.created]
    /\ UNCHANGED <<activeTab, file, importResult, previewData, reading,
                   store, exported>>
    /\ UNCHANGED <<genVars, scoreVars, healthVars, encVars>>

\* (mutant) the creates are not awaited one by one: all are issued at once
MutIssuedAt(list, i) == IF i = 0 THEN 0..(Len(list) - 1) ELSE {}
\* lines 258-262: the creates the loop issues when it comes to index i: the
\* one of candidate i, awaited before the next iteration
IssuedAt(list, i) == IF i < Len(list) THEN {i} ELSE {}

\* blink.auth.me() resolves: lines 251-262, up to the first await of create
AuthResolved ==
    /\ commit.pc = "auth"
    /\ commit' = [commit EXCEPT !.pc = "loop",
                                !.result = NewResult(commit.list),
                                !.pending = IssuedAt(commit.list, 0)]
    /\ UNCHANGED <<activeTab, file, importing, importResult, previewData,
                   progress, reading, store, exported>>
    /\ UNCHANGED <<genVars, scoreVars, healthVars, encVars>>

\* blink.auth.me() rejects: the outer catch and the finally, lines 295-304
AuthRejected ==
    /\ commit.pc = "auth"
    /\ commit' = [commit EXCEPT !.pc = "failed"]
    /\ importing' = FALSE
    /\ UNCHANGED <<activeTab, file, importResult, previewData, progress,
                   reading, store, exported>>
    /\ UNCHANGED <<genVars, scoreVars, healthVars, encVars>>

\* (mutant) a failure is counted but its message is not kept
MutCounted(result, candidate, ok) ==
    IF ok THEN [result EXCEPT !.successful = @ + 1]
    ELSE [result EXCEPT !.failed = @ + 1]
\* lines 279-283: the result after the create of the candidate settled; of
\* the message `Failed to import "${password.title}": ${error}` the title
\* is kept
Counted(result, candidate, ok) ==
    IF ok THEN [result EXCEPT !.successful = @ + 1]
    ELSE [result EXCEPT !.failed = @ + 1,
                        !.errors = Append(@, candidate.title)]

\* the create of the candidate at commit.i settles: lines 279-286, and then
\* either the next create is awaited or the loop is left, lines 288-304
CreateSettled(ok) ==
    /\ LET candidate == commit.list[commit.i + 1]
           result == Counted(commit.result, candidate, ok)
           last == commit.i + 1 = Len(commit.list)
       IN /\ store' = IF ok THEN Append(store, CreatedRecord(candidate, now))
                      ELSE store
          /\ progress' = [num |-> commit.i + 1, den |-> Len(commit.list)]
          /\ commit' = [commit EXCEPT
                           !.pc = IF last THEN "done" ELSE "loop",
                           !.i = @ + 1,
                           !.result = result,
                           !.attempts = Append(@, [index |-> commit.i,
                                                   ok |-> ok]),
                           !.pending = (@ \ {commit.i})
                                       \cup IssuedAt(commit.list, commit.i + 1),
                           !.created = IF ok /\ commit.fresh
                                       THEN Append(@, commit.i) ELSE @]
          /\ IF last
             THEN /\ importResult' = result
                  /\ activeTab' = "result"
                  /\ importing' = FALSE
             ELSE UNCHANGED <<importResult, activeTab, importing>>
    /\ UNCHANGED <<file, previewData, reading, exported>>
    /\ UNCHANGED <<genVars, scoreVars, healthVars, encVars>>

\* the create resolves (line 279)
CreateResolved ==
    /\ commit.pc = "loop"
    /\ CreateSettled(TRUE)

\* the create rejects (lines 280-283)
CreateRejected ==
    /\ commit.pc = "loop"
    /\ CreateSettled(FALSE)

\* SettingsPanel handleExportData, lines 94-131, when the store answers;
\* one export is followed
ExportDataDone ==
    /\ exported = NoExport
    /\ exported' = [file |-> ExportFile(store, now), passwords |-> store]
    /\ UNCHANGED <<activeTab, file, importing, importResult, previewData,
                   progress, reading, commit, store>>
    /\ UNCHANGED <<genVars, scoreVars, healthVars, encVars>>

\* handleExportData when blink.auth.me or the list call rejects, lines 132-139
ExportDataFailed ==
    /\ exported = NoExport
    /\ UNCHANGED <<activeTab, file, importing, importResult, previewData,
                   progress, reading, commit, store, exported>>
    /\ UNCHANGED <<genVars, scoreVars, healthVars, encVars>>

\* (mutant) getInstance constructs an object at every call
MutNeedsObject(current) == TRUE
\* line 173: if (!EncryptionService.instance)
NeedsObject(current) == current = 0

\* EncryptionService.getInstance(), lines 172-177, called by c
GetInstance ==
    \E c \in Callers :
        /\ IF NeedsObject(instance)
           THEN /\ Len(masterKey) < MaxObjects
                /\ masterKey' = Append(masterKey, JNull)
                /\ instance' = Len(masterKey) + 1
           ELSE UNCHANGED <<masterKey, instance>>
        /\ held' = [held EXCEPT ![c] = instance']
        /\ lastCall' = ReturnedTo("getInstance", c, instance')
        /\ UNCHANGED <<keySet, genVars, scoreVars, healthVars, importVars>>

\* setMasterKey(masterPassword), lines 179-185, on the object c holds
SetMasterKey ==
    \E c \in Callers, masterPassword \in MasterPasswords :
        /\ held[c] # 0
        /\ masterKey' = [masterKey EXCEPT ![held[c]] = DerivedKey(masterPassword)]
        /\ lastCall' = ReturnedTo("setMasterKey", c, JNull)
        /\ keySet' = TRUE
        /\ UNCHANGED <<instance, held, genVars, scoreVars, healthVars, importVars>>

\* clearMasterKey(), lines 209-211
ClearMasterKey ==
    \E c \in Callers :
        /\ held[c] # 0
        /\ masterKey' = [masterKey EXCEPT ![held[c]] = JNull]
        /\ lastCall' = ReturnedTo("clearMasterKey", c, JNull)
        /\ keySet' = FALSE
        /\ UNCHANGED <<instance, held, genVars, scoreVars, healthVars, importVars>>

\* encrypt(plaintext), lines 187-194
Encrypt ==
    \E c \in Callers, plaintext \in Plaintexts :
        /\ held[c] # 0
        /\ lastCall' = IF KeyMissing(masterKey[held[c]])
                       THEN ThrewTo("encrypt", c, "Master key not set")
                       ELSE ReturnedTo("encrypt", c,
                                Ciphertext(plaintext, masterKey[held[c]]))
        /\ UNCHANGED <<instance, masterKey, held, keySet,
                       genVars, scoreVars, healthVars, importVars>>

\* decrypt(ciphertext), lines 196-203.  A ciphertext of the present key
\* gives back its plaintext; for any other text AES.decrypt gives bytes
\* that toString(CryptoJS.enc.Utf8) turns into some string, here the empty
\* one, or rejects with 'Malformed UTF-8 data'
Decrypt ==
    \E c \in Callers, ciphertext \in Ciphertexts :
        /\ held[c] # 0
        /\ IF KeyMissing(masterKey[held[c]])
           THEN lastCall' = ThrewTo("decrypt", c, "Master key not set")
           ELSE IF ciphertext.key = masterKey[held[c]]
           THEN lastCall' = ReturnedTo("decrypt", c, ciphertext.plain)
           ELSE \/ lastCall' = ReturnedTo("decrypt", c, <<>>)
                \/ lastCall' = ThrewTo("decrypt", c, "Malformed UTF-8 data")
        /\ UNCHANGED <<instance, masterKey, held, keySet,
                       genVars, scoreVars, healthVars, importVars>>

\* isUnlocked(), lines 213-215
IsUnlocked ==
    \E c \in Callers :
        /\ held[c] # 0
        /\ lastCall' = ReturnedTo("isUnlocked", c,
                                KeyNotNull(masterKey[held[c]]))
        /\ UNCHANGED <<instance, masterKey, held, keySet,
                       genVars, scoreVars, healthVars, importVars>>

NextGen == Generate
NextScore == AnalyzeStrengthCall \/ CalculatePasswordStrengthCall
NextHealth == LoadPasswords \/ LoadPasswordsFailed \/ TimePasses
NextParse == ParseFileDone
NextImport == SetActiveTab \/ HandleFileSelect \/ ParseFileDone
              \/ HandleImport \/ AuthResolved \/ AuthRejected
              \/ CreateResolved \/ CreateRejected
NextExport == ExportDataDone \/ ExportDataFailed
              \/ SetActiveTab \/ HandleFileSelect \/ ParseFileDone
NextEncryption == GetInstance \/ SetMasterKey \/ ClearMasterKey
                  \/ Encrypt \/ Decrypt \/ IsUnlocked

Next == Generate \/ AnalyzeStrengthCall \/ CalculatePasswordStrengthCall
        \/ LoadPasswords \/ LoadPasswordsFailed \/ TimePasses
        \/ SetActiveTab \/ HandleFileSelect \/ ParseFileDone
        \/ HandleImport \/ AuthResolved \/ AuthRejected
        \/ CreateResolved \/ CreateRejected
        \/ ExportDataDone \/ ExportDataFailed
        \/ GetInstance \/ SetMasterKey \/ ClearMasterKey
        \/ Encrypt \/ Decrypt \/ IsUnlocked

Spec == Init /\ [][Next]_vars

\* the generator alone: a caller holds the options of a generate call
GenInit ==
    /\ genOptions \in GeneratorOptions
    /\ genOutcome = "none"
    /\ genPassword = <<>>
    /\ password = <<>>
    /\ strength = NotScored
    /\ breakdown = NotScored
    /\ now = MountClock
    /\ loading = TRUE
    /\ passwords = <<>>
    /\ healthStats = ZeroStats
    /\ activeTab = "upload"
    /\ file = NoFile
    /\ importing = FALSE
    /\ importResult = NoResult
    /\ previewData = <<>>
    /\ progress = NoProgress
    /\ reading = {}
    /\ commit = NoCommit
    /\ store = <<>>
    /\ exported = NoExport
    /\ instance = 0
    /\ masterKey = <<>>
    /\ held = [c \in Callers |-> 0]
    /\ lastCall = NoCall
    /\ keySet = FALSE
SpecGen == GenInit /\ [][NextGen]_vars

\* the scorers alone: a caller holds a string to score
ScoreInit ==
    /\ genOptions = NoOptions
    /\ genOutcome = "none"
    /\ genPassword = <<>>
    /\ password \in PasswordInputs
    /\ strength = NotScored
    /\ breakdown = NotScored
    /\ now = MountClock
    /\ loading = TRUE
    /\ passwords = <<>>
    /\ healthStats = ZeroStats
    /\ activeTab = "upload"
    /\ file = NoFile
    /\ importing = FALSE
    /\ importResult = NoResult
    /\ previewData = <<>>
    /\ progress = NoProgress
    /\ reading = {}
    /\ commit = NoCommit
    /\ store = <<>>
    /\ exported = NoExport
    /\ instance = 0
    /\ masterKey = <<>>
    /\ held = [c \in Callers |-> 0]
    /\ lastCall = NoCall
    /\ keySet = FALSE
SpecScore == ScoreInit /\ [][NextScore]_vars

\* the health screen alone, as mounted
HealthInit ==
    /\ genOptions = NoOptions
    /\ genOutcome = "none"
    /\ genPassword = <<>>
    /\ password = <<>>
    /\ strength = NotScored
    /\ breakdown = NotScored
    /\ now \in Clocks
    /\ loading = TRUE
    /\ passwords = <<>>
    /\ healthStats = ZeroStats
    /\ activeTab = "upload"
    /\ file = NoFile
    /\ importing = FALSE
    /\ importResult = NoResult
    /\ previewData = <<>>
    /\ progress = NoProgress
    /\ reading = {}
    /\ commit = NoCommit
    /\ store = <<>>
    /\ exported = NoExport
    /\ instance = 0
    /\ masterKey = <<>>
    /\ held = [c \in Callers |-> 0]
    /\ lastCall = NoCall
    /\ keySet = FALSE
SpecHealth == HealthInit /\ [][NextHealth]_vars

\* the parsers alone: handleFileSelect has accepted a file, with or without
\* the preview of an earlier file, and parseFile awaits its text; the user
\* may have gone on to the Import tab
ParseInit ==
    /\ genOptions = NoOptions
    /\ genOutcome = "none"
    /\ genPassword = <<>>
    /\ password = <<>>
    /\ strength = NotScored
    /\ breakdown = NotScored
    /\ now = MountClock
    /\ loading = TRUE
    /\ passwords = <<>>
    /\ healthStats = ZeroStats
    /\ file \in ParseInputs
    /\ importing = FALSE
    /\ importResult = NoResult
    /\ previewData \in PreviousPreviews
    /\ activeTab \in (IF previewData = <<>> THEN {"upload"}
                      ELSE {"upload", "import"})
    /\ progress = NoProgress
    /\ reading = {file}
    /\ commit = NoCommit
    /\ store = <<>>
    /\ exported = NoExport
    /\ instance = 0
    /\ masterKey = <<>>
    /\ held = [c \in Callers |-> 0]
    /\ lastCall = NoCall
    /\ keySet = FALSE
SpecParse == ParseInit /\ [][NextParse]_vars

\* the export of the settings screen and the import screen as opened, over a
\* store that earlier imports filled
ExportInit ==
    /\ genOptions = NoOptions
    /\ genOutcome = "none"
    /\ genPassword = <<>>
    /\ password = <<>>
    /\ strength = NotScored
    /\ breakdown = NotScored
    /\ now = MountClock
    /\ loading = TRUE
    /\ passwords = <<>>
    /\ healthStats = ZeroStats
    /\ activeTab = "upload"
    /\ file = NoFile
    /\ importing = FALSE
    /\ importResult = NoResult
    /\ previewData = <<>>
    /\ progress = NoProgress
    /\ reading = {}
    /\ commit = NoCommit
    /\ store \in InitialStores
    /\ exported = NoExport
    /\ instance = 0
    /\ masterKey = <<>>
    /\ held = [c \in Callers |-> 0]
    /\ lastCall = NoCall
    /\ keySet = FALSE
SpecExport == ExportInit /\ [][NextExport]_vars

\* the import screen as opened, over an empty store
ImportInit ==
    /\ genOptions = NoOptions
    /\ genOutcome = "none"
    /\ genPassword = <<>>
    /\ password = <<>>
    /\ strength = NotScored
    /\ breakdown = NotScored
    /\ now = MountClock
    /\ loading = TRUE
    /\ passwords = <<>>
    /\ healthStats = ZeroStats
    /\ activeTab = "upload"
    /\ file = NoFile
    /\ importing = FALSE
    /\ importResult = NoResult
    /\ previewData = <<>>
    /\ progress = NoProgress
    /\ reading = {}
    /\ commit = NoCommit
    /\ store = <<>>
    /\ exported = NoExport
    /\ instance = 0
    /\ masterKey = <<>>
    /\ held = [c \in Callers |-> 0]
    /\ lastCall = NoCall
    /\ keySet = FALSE
SpecImport == ImportInit /\ [][NextImport]_vars

\* the encryption service alone: no caller has asked for the instance yet
EncryptionInit ==
    /\ genOptions = NoOptions
    /\ genOutcome = "none"
    /\ genPassword = <<>>
    /\ password = <<>>
    /\ strength = NotScored
    /\ breakdown = NotScored
    /\ now = MountClock
    /\ loading = TRUE
    /\ passwords = <<>>
    /\ healthStats = ZeroStats
    /\ activeTab = "upload"
    /\ file = NoFile
    /\ importing = FALSE
    /\ importResult = NoResult
    /\ previewData = <<>>
    /\ progress = NoProgress
    /\ reading = {}
    /\ commit = NoCommit
    /\ store = <<>>
    /\ exported = NoExport
    /\ instance = 0
    /\ masterKey = <<>>
    /\ held = [c \in Callers |-> 0]
    /\ lastCall = NoCall
    /\ keySet = FALSE
SpecEncryption == EncryptionInit /\ [][NextEncryption]_vars

----------------------------------------------------------------------------
(* The generator's contract.                                               *)

\* the number of enabled character classes of a request
EnabledCount(o) == Len(EnabledPools(o))

NoClassEnabled(o) ==
    ~(o.includeUppercase \/ o.includeLowercase \/ o.includeNumbers \/ o.includeSymbols)

C2_EveryEnabledClassPresent ==
    genOutcome = "returned" =>
        /\ genOptions.includeUppercase => \E i \in 1..Len(genPassword) : genPassword[i] \in UpperSet
        /\ genOptions.includeLowercase => \E i \in 1..Len(genPassword) : genPassword[i] \in LowerSet
        /\ genOptions.includeNumbers => \E i \in 1..Len(genPassword) : genPassword[i] \in NumberSet
        /\ genOptions.includeSymbols => \E i \in 1..Len(genPassword) : genPassword[i] \in SymbolSet

\* a password of several classes with filled positions, whose uppercase
\* character the shuffle moved away from the front
C2_Witness ==
    /\ genOutcome = "returned"
    /\ genOptions.includeUppercase
    /\ genOptions.includeSymbols
    /\ genOptions.length > EnabledCount(genOptions)
    /\ genPassword[1] \notin UpperSet

\* C3: with excludeSimilar no character of the returned password is one of
\* i l 1 L o 0 O, in the guaranteed and in the filled positions.
C3_NoSimilarCharacter ==
    (genOutcome = "returned" /\ genOptions.excludeSimilar)
        => \A i \in 1..Len(genPassword) : genPassword[i] \notin SimilarSet

\* a password with digits and filled positions generated under excludeSimilar
C3_Witness ==
    /\ genOutcome = "returned"
    /\ genOptions.excludeSimilar
    /\ genOptions.includeNumbers
    /\ genOptions.includeLowercase
    /\ genOptions.length > EnabledCount(genOptions)

\* C4: with all four classes disabled generate throws and returns no
\* password, for every length and either value of excludeSimilar.
C4_NoClassThrows ==
    (NoClassEnabled(genOptions) /\ genOutcome # "none")
        => (genOutcome = "threw" /\ genPassword = <<>>)

\* a call with no class, a positive length and excludeSimilar has thrown
C4_Witness ==
    /\ NoClassEnabled(genOptions)
    /\ genOptions.length >= 1
    /\ genOptions.excludeSimilar
    /\ genOutcome = "threw"

\* C5: generate throws, and returns no password, whenever the requested
\* length is smaller than the number of enabled classes.
C5_ShortLengthThrows ==
    (genOutcome # "none" /\ genOptions.length < EnabledCount(genOptions))
        => genOutcome = "threw"

----------------------------------------------------------------------------
(* The scorers' contracts.                                                 *)

\* some character occurs 3 or more times consecutively
HasTripleRepeat(p) ==
    \E i \in 1..(Len(p) - 2) : p[i] = p[i + 1] /\ p[i + 1] = p[i + 2]

BoolCount(flags) == Cardinality({k \in 1..Len(flags) : flags[k]})

\* the 0-100 score of the claim for a password without repeated characters
StatedBreakdownScore(p) ==
    LET L == IF Len(p) >= 16 THEN 30 ELSE IF Len(p) >= 12 THEN 25
             ELSE IF Len(p) >= 8 THEN 15 ELSE IF Len(p) >= 6 THEN 10 ELSE 5
        n == BoolCount(<<HasUppercase(p), HasLowercase(p), HasNumbers(p), HasSymbols(p)>>)
        V == (IF n >= 3 THEN 10 ELSE 0) + (IF n = 4 THEN 10 ELSE 0)
        F == IF MatchesCommon(p) THEN 20 ELSE 0
    IN Max(0, Min(100,
           L + (IF HasUppercase(p) THEN 15 ELSE 0) + (IF HasLowercase(p) THEN 15 ELSE 0)
             + (IF HasNumbers(p) THEN 15 ELSE 0) + (IF HasSymbols(p) THEN 25 ELSE 0)
             + V - F))

\* C6: for every password with no character repeated 3 or more times in a
\* row, calculatePasswordStrength returns the clamped sum of the length step,
\* the class weights and the variety bonus minus the forbidden-substring
\* penalty; the score is in 0..100 and the flags are the class tests.
C6_BreakdownScoreFormula ==
    (breakdown # NotScored /\ ~HasTripleRepeat(password)) =>
        /\ breakdown.score = StatedBreakdownScore(password)
        /\ breakdown.score \in 0..100
        /\ breakdown.hasUppercase = HasUppercase(password)
        /\ breakdown.hasLowercase = HasLowercase(password)
        /\ breakdown.hasNumbers = HasNumbers(password)
        /\ breakdown.hasSymbols = HasSymbols(password)

\* the 0-5 score of the claim for a password without repeated characters
StatedStrengthScore(p) ==
    LET lengthPoints == IF Len(p) >= 12 THEN 2 ELSE IF Len(p) >= 8 THEN 1 ELSE 0
        classes == BoolCount(<<HasLowercase(p), HasUppercase(p), HasNumbers(p), HasSymbols(p)>>)
    IN Max(0, Min(5,
           lengthPoints + classes + (IF Len(p) >= 16 THEN 1 ELSE 0)
           + (IF HasSymbols(p) THEN 1 ELSE 0) - (IF MatchesCommon(p) THEN 2 ELSE 0)))

\* the hints of the claim: the length hint exactly when length < 8 and one
\* hint per absent class, in the order length, lowercase, uppercase, digit,
\* symbol
StatedSuggestions(p) ==
    LET hints == <<"Use at least 8 characters", "Include lowercase letters",
                   "Include uppercase letters", "Include numbers",
                   "Include special characters">>
        due == <<Len(p) < 8, ~HasLowercase(p), ~HasUppercase(p), ~HasNumbers(p),
                 ~HasSymbols(p)>>
    IN [k \in 1..5 |-> IF due[k] THEN <<hints[k]>> ELSE <<>>]

\* C7: for every password with no character repeated 3 or more times in a
\* row, analyzeStrength returns the clamped sum of the length points, one
\* point per present class, the length-16 bonus and the symbol bonus minus the
\* forbidden-substring penalty, and the suggestions are the due hints in
\* order.
C7_StrengthScoreFormula ==
    (strength # NotScored /\ ~HasTripleRepeat(password)) =>
        /\ strength.score = StatedStrengthScore(password)
        /\ LET h == StatedSuggestions(password)
           IN strength.suggestions = h[1] \o h[2] \o h[3] \o h[4] \o h[5]

\* the strings a scored password is compared with
Comparands == {f \o t : f \in Pasted, t \in TypedStrings(1)}

\* what the comparison reads of a comparand
ComparandProfiles ==
    { [len |-> Len(q),
       flags |-> <<HasUppercase(q), HasLowercase(q), HasNumbers(q), HasSymbols(q)>>,
       penalties |-> <<MatchesRepeated(q), MatchesCommon(q)>>,
       score |-> CalculatePasswordStrength(q).score] : q \in Comparands }

\* C8, as stated: of two passwords with the same four class flags the
\* longer one never has the lower 0-100 score.
C8_LongerNeverLower ==
    breakdown # NotScored =>
        \A c \in ComparandProfiles :
            (/\ c.flags = <<breakdown.hasUppercase, breakdown.hasLowercase,
                            breakdown.hasNumbers, breakdown.hasSymbols>>
             /\ c.len >= Len(password))
                => c.score >= breakdown.score

\* C8, amended: of two passwords with the same four class flags to which
\* the same penalties apply, the longer one never has the lower 0-100 score.
C8_LongerNeverLowerSamePenalties ==
    breakdown # NotScored =>
        \A c \in ComparandProfiles :
            (/\ c.flags = <<breakdown.hasUppercase, breakdown.hasLowercase,
                            breakdown.hasNumbers, breakdown.hasSymbols>>
             /\ c.penalties = <<MatchesRepeated(password), MatchesCommon(password)>>
             /\ c.len >= Len(password))
                => c.score >= breakdown.score

\* six a score lower than sixteen a
C8_Witness ==
    /\ password = <<"a","a","a","a","a","a">>
    /\ breakdown # NotScored
    /\ \E c \in ComparandProfiles :
           /\ c.len = 16
           /\ c.flags = <<FALSE, TRUE, FALSE, FALSE>>
           /\ c.penalties = <<FALSE, FALSE>>
           /\ c.score > breakdown.score

\* C9: "password" scores 0 or 1 on the 0-5 scale and below 60 on the 0-100
\* scale; "Tr0ub4dor&9!" scores at least 80 on the 0-100 scale, and so does
\* every password of length >= 12 that holds all four classes.
C9_KnownFixtures ==
    /\ (password = <<"p","a","s","s","w","o","r","d">> /\ strength # NotScored)
           => strength.score \in {0, 1}
    /\ (password = <<"p","a","s","s","w","o","r","d">> /\ breakdown # NotScored)
           => breakdown.score < 60
    /\ (password = <<"T","r","0","u","b","4","d","o","r","&","9","!">>
        /\ breakdown # NotScored)
           => breakdown.score >= 80
    /\ (/\ breakdown # NotScored
        /\ Len(password) >= 12
        /\ HasUppercase(password) /\ HasLowercase(password)
        /\ HasNumbers(password) /\ HasSymbols(password))
           => breakdown.score >= 80

\* "password" has been scored on both scales
C9_Witness ==
    /\ password = <<"p","a","s","s","w","o","r","d">>
    /\ strength # NotScored
    /\ breakdown # NotScored

----------------------------------------------------------------------------
(* The health analysis.                                                    *)

\* C10: the duplicate count of the analysis counts every member of every
\* group of records that share a secret, the first included: it equals the
\* number of records of the duplicate subset.
C10_DuplicateCountIsSubsetSize ==
    ~loading => healthStats.duplicate = Len(GetDuplicatePasswords(passwords))


\* the record at position i of the loaded vault shares its secret with a
\* record at another position
SharesSecret(i) ==
    \E j \in 1..Len(passwords) :
        j # i /\ SecretOf(passwords[j]) = SecretOf(passwords[i])

\* the loaded records that share their secret, in vault order
SharedInVaultOrder ==
    SelectSeq(passwords, LAMBDA r : SharesSecret(r.id))

StatedHealthRaw(st) ==
    100 * st.total - 40 * st.weak - 30 * st.duplicate - 20 * st.old
    + 10 * st.strong

\* C12: for a non-empty vault the composite score is
\* clamp(0, 100, 100 - 40*weak/total - 30*duplicate/total - 20*stale/total
\* + 10*strong/total); it is 0 for the empty vault, 100 when weak, duplicate
\* and stale are 0 and strong = total, and always within [0, 100].
C12_CompositeScoreFormula ==
    ~loading =>
        LET st == healthStats
            raw == StatedHealthRaw(st)
        IN /\ st.total = Len(passwords)
           /\ st.total = 0 => st.score.num = 0
           /\ st.total > 0 =>
                  /\ st.score.den = st.total
                  /\ st.score.num = (IF raw < 0 THEN 0
                                     ELSE IF raw > 100 * st.total
                                          THEN 100 * st.total ELSE raw)
           /\ st.score.den > 0
           /\ 0 <= st.score.num /\ st.score.num <= 100 * st.score.den
           /\ (st.total > 0 /\ st.weak = 0 /\ st.duplicate = 0 /\ st.old = 0
               /\ st.strong = st.total) => st.score.num = 100 * st.score.den

\* a vault in which all four counts weigh on an unclamped score
C12_Witness ==
    /\ ~loading
    /\ healthStats.weak > 0 /\ healthStats.duplicate > 0
    /\ healthStats.old > 0 /\ healthStats.strong > 0
    /\ healthStats.score.num = StatedHealthRaw(healthStats)
    /\ 0 < healthStats.score.num
    /\ healthStats.score.num < 100 * healthStats.score.den

\* the positions of the loaded vault whose secret scores below 60, and those
\* whose secret scores at least 80
ScoredBelow60 ==
    {i \in 1..Len(passwords) :
        CalculatePasswordStrength(SecretOf(passwords[i])).score < 60}
ScoredAtLeast80 ==
    {i \in 1..Len(passwords) :
        CalculatePasswordStrength(SecretOf(passwords[i])).score >= 80}

\* C13: a record is counted weak exactly when its secret scores below 60 and
\* strong exactly when it scores at least 80; none is counted as both,
\* weak + strong <= total, and the weak count is the number of records the
\* weak subset returns.
C13_WeakAndStrongCounts ==
    ~loading =>
        /\ healthStats.weak = Cardinality(ScoredBelow60)
        /\ healthStats.strong = Cardinality(ScoredAtLeast80)
        /\ ScoredBelow60 \cap ScoredAtLeast80 = {}
        /\ healthStats.weak + healthStats.strong <= healthStats.total
        /\ healthStats.weak = Len(GetWeakPasswords(passwords))

\* a vault with a weak record, a strong one and one that is neither
C13_Witness ==
    /\ ~loading
    /\ healthStats.weak > 0
    /\ healthStats.strong > 0
    /\ healthStats.weak + healthStats.strong < healthStats.total


-----------------------------------------------------------------------------
(* The repeated-character penalty.                                         *)

\* the sums of the two scorers without their repeated-character term
StrengthSumWithoutRepeat(p) ==
    RawStrengthScore(p) + (IF MatchesRepeated(p) THEN 1 ELSE 0)
BreakdownSumWithoutRepeat(p) ==
    RawBreakdownScore(p) + (IF MatchesRepeated(p) THEN 10 ELSE 0)

\* C20: every password in which some character occurs 3 or more times in a
\* row has the repeated-character penalty subtracted before the clamp: 1 on
\* the 0-5 scale and 10 on the 0-100 scale.
C20_TripleRepeatPenalised ==
    HasTripleRepeat(password) =>
        /\ strength # NotScored =>
               strength.score
                   = Max(0, Min(5, StrengthSumWithoutRepeat(password) - 1))
        /\ breakdown # NotScored =>
               breakdown.score
                   = Max(0, Min(100, BreakdownSumWithoutRepeat(password) - 10))


-----------------------------------------------------------------------------
(* The import parsers.                                                     *)

\* parseFile has finished for the selected file
FileParsed == reading = {}

\* the screen shows the outcome of a parser: its candidates in the preview,
\* on the Preview tab, or after an error no move to the Preview tab
ShowsOutcome(outcome) ==
    IF outcome.threw THEN activeTab # "preview"
    ELSE activeTab = "preview" /\ previewData = outcome.passwords

\* the parser for a name by the extension as it is written
StatedParser(name) ==
    IF EndsWith(name, <<".","j","s","o","n">>) THEN "json"
    ELSE IF EndsWith(name, <<".","c","s","v">>) THEN "csv"
    ELSE "generic"

\* the parser for a name by the extension in any letter case
StatedParserAnyCase(name) ==
    IF \E k \in 1..Len(name) :
           ToLowerCase(SubSeq(name, k, Len(name))) = <<".","j","s","o","n">> THEN "json"
    ELSE IF \E k \in 1..Len(name) :
           ToLowerCase(SubSeq(name, k, Len(name))) = <<".","c","s","v">> THEN "csv"
    ELSE "generic"

\* C14 (as stated): the parser is chosen by the end of the file name alone:
\* .json the JSON parser, .csv the CSV parser, any other name the fallback
\* parser, whatever the file contains.
C14_ParserByExtension ==
    FileParsed =>
        ShowsOutcome(ParseWith(StatedParser(file.name), file.text))

\* C14 (amended): the parser is chosen by the end of the file name alone,
\* compared without regard to letter case: .json the JSON parser, .csv the
\* CSV parser, any other name the fallback parser, whatever the file
\* contains.
C14_ParserByExtensionAnyCase ==
    FileParsed =>
        ShowsOutcome(ParseWith(StatedParserAnyCase(file.name), file.text))

\* a file of JSON text under a .csv name went to the CSV parser, which
\* differs from the JSON parser on it
C14_Witness ==
    /\ FileParsed
    /\ file.name = <<"a",".","c","s","v">>
    /\ JsonParse(file.text).ok
    /\ ~ParseJSON(file.text).threw
    /\ ~ShowsOutcome(ParseJSON(file.text))
    /\ ShowsOutcome(ParseCSV(file.text))

\* the first of the values that is present (not undefined, null, empty,
\* zero or false), else the default
RECURSIVE FirstPresent(_, _)
FirstPresent(values, default) ==
    IF Len(values) = 0 THEN default
    ELSE IF Truthy(values[1]) THEN values[1]
    ELSE FirstPresent(Tail(values), default)

\* the candidate the claim gives for the element e at the array index k
StatedJsonCandidate(e, k) ==
    [title |-> FirstPresent(<<Get(e, <<"t","i","t","l","e">>), Get(e, <<"n","a","m","e">>)>>,
                            JStr(<<"I","m","p","o","r","t","e","d"," ","P","a","s","s","w","o","r","d"," ">> \o ToDecimal(k + 1))),
     username |-> FirstPresent(<<Get(e, <<"u","s","e","r","n","a","m","e">>), Get(e, <<"u","s","e","r">>)>>, JStr(<<>>)),
     email |-> FirstPresent(<<Get(e, <<"e","m","a","i","l">>)>>, JStr(<<>>)),
     password |-> FirstPresent(<<Get(e, <<"p","a","s","s","w","o","r","d">>)>>, JStr(<<>>)),
     websiteUrl |-> FirstPresent(<<Get(e, <<"w","e","b","s","i","t","e","U","r","l">>), Get(e, <<"u","r","l">>),
                                   Get(e, <<"w","e","b","s","i","t","e">>)>>, JStr(<<>>)),
     category |-> FirstPresent(<<Get(e, <<"c","a","t","e","g","o","r","y">>)>>, JStr(<<"P","e","r","s","o","n","a","l">>)),
     notes |-> FirstPresent(<<Get(e, <<"n","o","t","e","s">>), Get(e, <<"n","o","t","e">>)>>, JStr(<<>>))]

\* the text decodes to an array of objects
DecodesToObjects(text) ==
    LET data == JsonParse(text)
    IN /\ data.ok
       /\ IsArray(data.v)
       /\ \A k \in 1..Len(data.v.a) : IsObject(data.v.a[k])

\* C15: for a text that decodes to an array of n objects the JSON parser
\* returns n candidates in array order; candidate i has the element's title,
\* else its name, else "Imported Password {i+1}", the element's category else
\* "Personal", and "" for every missing optional field; the array of the one
\* object {"name":"Gmail","password":"x"} gives one candidate titled Gmail in
\* the category Personal.
C15_JsonCandidates ==
    (FileParsed /\ ParserFor(file.name) = "json" /\ DecodesToObjects(file.text)) =>
        LET elements == JsonParse(file.text).v.a
        IN /\ activeTab = "preview"
           /\ Len(previewData) = Len(elements)
           /\ \A k \in 1..Len(elements) :
                  previewData[k] = StatedJsonCandidate(elements[k], k - 1)
           /\ file.text = <<"[","{","\"","n","a","m","e","\"",":","\"","G","m","a","i","l","\"",",","\"","p","a","s","s","w","o","r","d","\"",":","\"","x","\"","}","]">> =>
                  /\ Len(previewData) = 1
                  /\ previewData[1].title = JStr(<<"G","m","a","i","l">>)
                  /\ previewData[1].category = JStr(<<"P","e","r","s","o","n","a","l">>)
                  /\ previewData[1].password = JStr(<<"x">>)
                  /\ previewData[1].username = JStr(<<>>)
                  /\ previewData[1].email = JStr(<<>>)
                  /\ previewData[1].websiteUrl = JStr(<<>>)
                  /\ previewData[1].notes = JStr(<<>>)

\* three objects were parsed: one titled by its name, one by its title, and
\* one by its position
C15_Witness ==
    /\ FileParsed
    /\ ParserFor(file.name) = "json"
    /\ DecodesToObjects(file.text)
    /\ Len(previewData) = 3
    /\ previewData[1].title = JStr(<<"G","m","a","i","l">>)
    /\ previewData[2].title = JStr(<<"T">>)
    /\ previewData[3].title = JStr(<<"I","m","p","o","r","t","e","d"," ","P","a","s","s","w","o","r","d"," ","3">>)
    /\ previewData[3].websiteUrl = JStr(<<"s",".","i","o">>)

\* the candidates of the data rows of a CSV text, dropped ones included
CsvRowCandidates(text) ==
    LET lines == NonEmptyLines(text)
        split == Split(lines[1], {","})
        headers == [k \in 1..Len(split) |-> ToLowerCase(Trim(split[k]))]
    IN [i \in 1..(Len(lines) - 1) |-> CsvCandidate(headers, lines[i + 1], i)]

\* C16: the CSV parser raises no error for a row whose resolved password is
\* empty and drops exactly those rows: it returns the candidates of the rows
\* with a non-empty password, in file order, and none with an empty password.
C16_CsvDropsEmptyPasswords ==
    (FileParsed /\ ParserFor(file.name) = "csv"
     /\ Len(NonEmptyLines(file.text)) >= 2) =>
        LET rows == CsvRowCandidates(file.text)
            kept == SelectSeq(rows, LAMBDA c : c.password # JStr(<<>>))
        IN /\ activeTab = "preview"
           /\ previewData = kept
           /\ Len(previewData)
                  = Cardinality({i \in 1..Len(rows) : rows[i].password # JStr(<<>>)})
           /\ \A k \in 1..Len(previewData) :
                  previewData[k].password # JStr(<<>>)

\* of three data rows the middle one had no password and was dropped
C16_Witness ==
    /\ FileParsed
    /\ ParserFor(file.name) = "csv"
    /\ Len(NonEmptyLines(file.text)) = 4
    /\ CsvRowCandidates(file.text)[1].password # JStr(<<>>)
    /\ CsvRowCandidates(file.text)[2].password = JStr(<<>>)
    /\ CsvRowCandidates(file.text)[3].password # JStr(<<>>)
    /\ Len(previewData) = 2
    /\ previewData[1].title = JStr(<<"G","m","a","i","l">>)
    /\ previewData[2].title = JStr(<<"T","w">>)

\* the text of the file is malformed for the parser of its name: JSON that
\* does not decode to an array, CSV of fewer than two non-empty lines
Malformed(f) ==
    \/ /\ ParserFor(f.name) = "json"
       /\ ~(JsonParse(f.text).ok /\ IsArray(JsonParse(f.text).v))
    \/ /\ ParserFor(f.name) = "csv"
       /\ Len(NonEmptyLines(f.text)) < 2

\* C17: parsing a malformed file (JSON that does not decode to an array, CSV
\* of fewer than two non-empty lines) fails: no candidates are produced, and
\* the previewed candidates and the active tab stay as they were.
C17_MalformedLeavesPreview ==
    [][\A f \in reading :
           (reading' = reading \ {f} /\ Malformed(f)) =>
               (previewData' = previewData /\ activeTab' = activeTab)]_vars

\* a malformed file was parsed while an earlier preview was there and the
\* Import tab was open
C17_Witness ==
    /\ FileParsed
    /\ Malformed(file)
    /\ ParserFor(file.name) = "csv"
    /\ Len(previewData) = 1
    /\ activeTab = "import"

-----------------------------------------------------------------------------
(* The commit of the import.                                               *)

\* the indices of the candidates whose create failed in the finished run
FailedIndices ==
    {k \in 1..Len(commit.attempts) : ~commit.attempts[k].ok}

\* C18: a finished run over n >= 1 candidates has tried to create every
\* candidate once, in input order, whichever creates failed; its result has
\* total = n, successful + failed = n, failed = the number of failed creates,
\* and one error per failed candidate in input order; three candidates with
\* one failure give total 3, successful 2, failed 1 and one error.
C18_CommitTriesAll ==
    /\ commit.pc = "loop" =>
           /\ commit.i < Len(commit.list)
           /\ Len(commit.attempts) = commit.i
    /\ commit.pc = "done" =>
           LET n == Len(commit.list)
               failures == SelectSeq(commit.attempts, LAMBDA a : ~a.ok)
           IN /\ n >= 1
              /\ Len(commit.attempts) = n
              /\ \A k \in 1..n : commit.attempts[k].index = k - 1
              /\ importResult = commit.result
              /\ importResult.total = n
              /\ importResult.successful + importResult.failed = n
              /\ importResult.failed = Cardinality(FailedIndices)
              /\ Len(importResult.errors) = importResult.failed
              /\ \A k \in 1..Len(failures) :
                     importResult.errors[k]
                         = commit.list[failures[k].index + 1].title
              /\ (n = 3 /\ Cardinality(FailedIndices) = 1) =>
                     /\ importResult.total = 3
                     /\ importResult.successful = 2
                     /\ importResult.failed = 1
                     /\ Len(importResult.errors) = 1

\* a run over three candidates in which only the second create failed
C18_Witness ==
    /\ commit.pc = "done"
    /\ Len(commit.list) = 3
    /\ FailedIndices = {2}
    /\ Len(store) = 2
    /\ importResult.errors = <<commit.list[2].title>>

-----------------------------------------------------------------------------
(* The export.                                                             *)

\* C19: the exported file, when imported, gives one candidate per exported
\* record with the record's title, username, email, password, websiteUrl,
\* category and notes.
C19_ExportRoundTrips ==
    (exported # NoExport /\ file = exported.file /\ FileParsed) =>
        /\ Len(previewData) = Len(exported.passwords)
        /\ \A k \in 1..Len(exported.passwords) :
               /\ previewData[k].title = exported.passwords[k].title
               /\ previewData[k].username = exported.passwords[k].username
               /\ previewData[k].email = exported.passwords[k].email
               /\ previewData[k].password = exported.passwords[k].password
               /\ previewData[k].websiteUrl = exported.passwords[k].websiteUrl
               /\ previewData[k].category = exported.passwords[k].category
               /\ previewData[k].notes = exported.passwords[k].notes

-----------------------------------------------------------------------------
(* The two scorers' class tests.                                           *)

\* the suggestions analyzeStrength pushes when a class point is not awarded
ClassHints ==
    [hasLowercase |-> "Include lowercase letters",
     hasUppercase |-> "Include uppercase letters",
     hasNumbers |-> "Include numbers",
     hasSymbols |-> "Include special characters"]

\* the 0-5 score when the class points and the symbol bonus are awarded by
\* the flags f that calculatePasswordStrength reports
ScoreFromFlags(p, f) ==
    Max(0, Min(5,
        LengthPoints(p)
        + BoolCount(<<f.hasLowercase, f.hasUppercase, f.hasNumbers, f.hasSymbols>>)
        + (IF Len(p) >= 16 THEN 1 ELSE 0)
        + (IF f.hasSymbols THEN 1 ELSE 0)
        - (IF MatchesRepeated(p) THEN 1 ELSE 0)
        - (IF MatchesCommon(p) THEN 2 ELSE 0)))

\* C21: for every password, analyzeStrength awards its lowercase, uppercase,
\* digit and symbol class points (it pushes the class's suggestion otherwise)
\* and its extra symbol bonus exactly when calculatePasswordStrength reports
\* hasLowercase, hasUppercase, hasNumbers and hasSymbols as true; the bonus
\* is awarded for every password whose hasSymbols flag is true.
C21_SameClassTests ==
    (strength # NotScored /\ breakdown # NotScored) =>
        /\ \A flag \in DOMAIN ClassHints :
               breakdown[flag] <=> ClassHints[flag] \notin Range(strength.suggestions)
        /\ strength.score = ScoreFromFlags(password, breakdown)

-----------------------------------------------------------------------------
(* The order of the commit's creates.                                      *)

\* progress p is not above progress q (num / den compared without division)
ProgressAtMost(p, q) == p.num * q.den <= q.num * p.den

\* C22: the commit issues its creates one at a time and in input order: the
\* create of candidate k is in flight only when the creates of the
\* candidates 0..k-1 have all succeeded or failed, in that order, no two
\* creates are in flight together, the progress after record i is
\* (i + 1) / n, and the progress never decreases during a run.
C22_SequentialCommit ==
    [][/\ Cardinality(commit'.pending) <= 1
       /\ \A k \in commit'.pending :
              /\ commit'.pc = "loop"
              /\ k = commit'.i
              /\ k = Len(commit'.attempts)
       /\ \A k \in 1..Len(commit'.attempts) : commit'.attempts[k].index = k - 1
       /\ Len(commit'.attempts) > Len(commit.attempts) =>
              /\ commit'.attempts
                     = Append(commit.attempts,
                              [index |-> commit.i, ok |-> store' # store])
              /\ commit.pending = {commit.i}
              /\ progress' = [num |-> commit.i + 1, den |-> Len(commit.list)]
       /\ commit.pc \in {"auth", "loop"} => ProgressAtMost(progress, progress')
      ]_vars

\* a run over three candidates whose first create has settled and whose
\* second is in flight
C22_Witness ==
    /\ commit.pc = "loop"
    /\ Len(commit.list) = 3
    /\ commit.pending = {1}
    /\ Len(commit.attempts) = 1
    /\ progress = [num |-> 1, den |-> 3]

-----------------------------------------------------------------------------
(* Staleness.                                                              *)

\* the number of days from 1 January of the year 0 to the day d of the month
\* m (0..11) of the year y; a day past the end of the month counts on into
\* the following month
RECURSIVE DaysBeforeMonth(_, _)
DaysBeforeMonth(y, m) ==
    IF m = 0 THEN 0 ELSE DaysBeforeMonth(y, m - 1) + DaysInMonth(y, m - 1)
DayNumber(y, m, d) ==
    365 * y + ((y - 1) \div 4) - ((y - 1) \div 100) + ((y - 1) \div 400)
    + DaysBeforeMonth(y, m) + d

\* the record r was last modified strictly before the date t moved back by 6
\* calendar months: the month of t minus 6, with the day of the month kept
StatedStale(r, t) ==
    LET u == r.updatedAt
        cutoff == IF t.m >= 6 THEN DayNumber(t.y, t.m - 6, t.d)
                  ELSE DayNumber(t.y - 1, t.m + 6, t.d)
    IN DayNumber(u.y, u.m, u.d) < cutoff

\* C23: a record is stale exactly when its last modification is strictly
\* earlier than the current time moved back by 6 calendar months; a record
\* modified exactly at that cutoff or later is not stale; the stale count of
\* the analysis and the stale subset apply this same rule, each at the time
\* it is computed.
C23_StaleByCalendarMonths ==
    [][/\ (loading /\ ~loading') =>
              healthStats'.old
                  = Cardinality({i \in 1..Len(passwords') :
                                     StatedStale(passwords'[i], now)})
       /\ ~loading' =>
              LET list == passwords'
                  t == now'
              IN GetOldPasswords(list, t)
                     = SelectSeq(list, LAMBDA r : StatedStale(r, t))
      ]_vars

\* on 15 December a vault with a record modified on 15 June, exactly at the
\* cutoff, and a record modified on 1 March
C23_Witness ==
    /\ ~loading
    /\ now = [y |-> 2024, m |-> 11, d |-> 15]
    /\ Len(passwords) = 2
    /\ passwords[1].updatedAt = RecentDate
    /\ passwords[2].updatedAt = OldDate
    /\ healthStats.old = 1
    /\ Len(GetOldPasswords(passwords, now)) = 1

\* C29: once the vault is loaded on the health screen, the displayed stale
\* count equals the number of records the stale-subset accessor returns, at
\* every later moment at which the subset is recomputed, however much time
\* has passed since the analysis ran.
C29_StaleCountIsSubsetSize ==
    ~loading => healthStats.old = Len(GetOldPasswords(passwords, now))

-----------------------------------------------------------------------------
(* The CSV columns.                                                        *)

\* the header names of the claim and the field each stands for
HeaderSynonyms ==
    { <<<<"t","i","t","l","e">>, "title">>,
      <<<<"n","a","m","e">>, "title">>,
      <<<<"s","i","t","e">>, "title">>,
      <<<<"u","s","e","r","n","a","m","e">>, "username">>,
      <<<<"u","s","e","r">>, "username">>,
      <<<<"e","m","a","i","l">>, "email">>,
      <<<<"p","a","s","s","w","o","r","d">>, "password">>,
      <<<<"u","r","l">>, "websiteUrl">>,
      <<<<"w","e","b","s","i","t","e">>, "websiteUrl">>,
      <<<<"w","e","b","s","i","t","e","u","r","l">>, "websiteUrl">>,
      <<<<"c","a","t","e","g","o","r","y">>, "category">>,
      <<<<"f","o","l","d","e","r">>, "category">>,
      <<<<"n","o","t","e","s">>, "notes">>,
      <<<<"n","o","t","e">>, "notes">> }

\* the columns (counted from 1) whose header token, trimmed and case-folded,
\* names the field
ColumnsOf(headerLine, field) ==
    LET tokens == Split(headerLine, {","})
    IN {k \in 1..Len(tokens) :
            <<ToLowerCase(Trim(tokens[k])), field>> \in HeaderSynonyms}

\* the value of a cell: trimmed, and without a surrounding pair of double
\* quotes; the empty string for a cell the row does not have
CellOf(rowLine, k) ==
    LET cells == Split(rowLine, {","})
        v == IF k <= Len(cells) THEN Trim(cells[k]) ELSE <<>>
    IN IF Len(v) >= 2 /\ Head(v) = "\"" /\ v[Len(v)] = "\""
       THEN SubSeq(v, 2, Len(v) - 1) ELSE v

\* the value the row has for the field: that of the last column naming it
FieldOf(headerLine, rowLine, field) ==
    LET columns == ColumnsOf(headerLine, field)
    IN CellOf(rowLine, CHOOSE k \in columns : \A l \in columns : l <= k)

\* the candidate of the claim for the data row of index i
StatedCsvCandidate(headerLine, rowLine, i) ==
    LET Has(field) == ColumnsOf(headerLine, field) # {}
        Value(field) == IF Has(field) THEN FieldOf(headerLine, rowLine, field)
                        ELSE <<>>
        Optional(field) == IF Has(field) THEN JStr(Value(field)) ELSE Undefined
    IN [title |-> IF Value("title") # <<>> THEN JStr(Value("title"))
                  ELSE IF Value("websiteUrl") # <<>> THEN JStr(Value("websiteUrl"))
                  ELSE JStr(<<"I","m","p","o","r","t","e","d"," ","P","a","s",
                              "s","w","o","r","d"," ">> \o ToDecimal(i)),
        username |-> Optional("username"),
        email |-> Optional("email"),
        password |-> JStr(Value("password")),
        websiteUrl |-> Optional("websiteUrl"),
        category |-> IF Value("category") # <<>> THEN JStr(Value("category"))
                     ELSE JStr(<<"P","e","r","s","o","n","a","l">>),
        notes |-> Optional("notes")]

\* C24: the CSV parser resolves columns by header name, not position: the
\* header tokens are trimmed and case-folded and looked up in the synonym
\* table, unknown headers are ignored, a surrounding pair of double quotes is
\* removed from a value, an empty category becomes "Personal", and an empty
\* title falls back to the websiteUrl value and then to "Imported Password
\* {row index}"; the rows with a password are the candidates.
C24_CsvColumnsByHeaderName ==
    (FileParsed /\ ParserFor(file.name) = "csv"
     /\ Len(NonEmptyLines(file.text)) >= 2) =>
        LET lines == NonEmptyLines(file.text)
            stated == [i \in 1..(Len(lines) - 1) |->
                           StatedCsvCandidate(lines[1], lines[i + 1], i)]
        IN previewData = SelectSeq(stated, LAMBDA c : c.password # JStr(<<>>))

\* a file with the header Site,Website,PASSWORD,Category,Email,Note and two
\* rows without a title: the first takes its title from the Website column
\* and has an empty category, the second has no Website value either
C24_Witness ==
    /\ FileParsed
    /\ ParserFor(file.name) = "csv"
    /\ Len(previewData) = 2
    /\ previewData[1].title = JStr(<<"s",".","i","o">>)
    /\ previewData[1].websiteUrl = JStr(<<"s",".","i","o">>)
    /\ previewData[1].password = JStr(<<"p","w","4">>)
    /\ previewData[1].category = Personal
    /\ previewData[1].email = JStr(<<"n">>)
    /\ previewData[2].title = ImportedPassword(2)
    /\ previewData[2].password = JStr(<<"p","w","5">>)
    /\ previewData[2].category = JStr(<<"W">>)
    /\ previewData[2].username = Undefined

-----------------------------------------------------------------------------
(* The fallback parser.                                                    *)

\* the tokens of a line: the pieces between tabs, commas and semicolons,
\* without the white space around them
TokensOf(line) ==
    LET pieces == Split(line, {"\t", ",", ";"})
    IN [k \in 1..Len(pieces) |-> Trim(pieces[k])]

\* the candidate of the claim for a line of two or more tokens
StatedGenericCandidate(line) ==
    LET tokens == TokensOf(line)
        n == Len(tokens)
    IN [title |-> JStr(tokens[1]),
        username |-> JStr(tokens[2]),
        email |-> Undefined,
        password |-> IF n >= 3 THEN JStr(tokens[3]) ELSE JStr(tokens[2]),
        websiteUrl |-> IF n >= 4 THEN JStr(tokens[4]) ELSE JStr(<<>>),
        category |-> JStr(<<"P","e","r","s","o","n","a","l">>),
        notes |-> JStr(Joined(SubSeq(tokens, 5, n), <<" ">>))]

\* the same with the two fallbacks of the code: an empty token 0 gives the
\* title "Imported Password {k}" for the k-th non-empty line, and an empty
\* token 2 gives token 1 as the password
AmendedGenericCandidate(line, k) ==
    LET tokens == TokensOf(line)
        stated == StatedGenericCandidate(line)
    IN [stated EXCEPT
           !.title = IF tokens[1] # <<>> THEN @
                     ELSE JStr(<<"I","m","p","o","r","t","e","d"," ","P","a",
                                 "s","s","w","o","r","d"," ">> \o ToDecimal(k)),
           !.password = IF @ # JStr(<<>>) THEN @ ELSE JStr(tokens[2])]

\* the positions, among the non-empty lines, of the lines of two or more
\* tokens, in line order
TokenLines(lines) ==
    SelectSeq([k \in 1..Len(lines) |-> k],
              LAMBDA k : Len(TokensOf(lines[k])) >= 2)

\* C25 (as stated): the fallback parser splits every non-empty line on tab,
\* comma or semicolon, skips the lines of fewer than 2 tokens, and for every
\* other line emits one candidate, in line order, with title = token 0,
\* username = token 1, password = token 2 (token 1 when token 2 is absent),
\* url = token 3, notes = the remaining tokens joined by single spaces, and
\* category "Personal".
C25_FallbackCandidates ==
    (FileParsed /\ ParserFor(file.name) = "generic") =>
        LET lines == NonEmptyLines(file.text)
            at == TokenLines(lines)
        IN /\ activeTab = "preview"
           /\ previewData
                  = [j \in 1..Len(at) |-> StatedGenericCandidate(lines[at[j]])]

\* C25 (amended): the same, with the tokens trimmed, the title "Imported
\* Password {line number}" when token 0 is empty, and the password token 1
\* when token 2 is absent or empty.
C25_FallbackCandidatesWithFallbacks ==
    (FileParsed /\ ParserFor(file.name) = "generic") =>
        LET lines == NonEmptyLines(file.text)
            at == TokenLines(lines)
        IN /\ activeTab = "preview"
           /\ previewData
                  = [j \in 1..Len(at) |->
                         AmendedGenericCandidate(lines[at[j]], at[j])]

\* a text of three lines: one of six tokens between semicolons, a tab and a
\* comma, one of a single token, and one with empty tokens 0 and 2
C25_Witness ==
    /\ FileParsed
    /\ ParserFor(file.name) = "generic"
    /\ Len(NonEmptyLines(file.text)) = 3
    /\ Len(previewData) = 2
    /\ previewData[1]
           = [title |-> JStr(<<"G","h">>), username |-> JStr(<<"b","o","b">>),
              email |-> Undefined, password |-> JStr(<<"p","w","6">>),
              websiteUrl |-> JStr(<<"g",".","i","o">>), category |-> Personal,
              notes |-> JStr(<<"a"," ","b">>)]
    /\ previewData[2].title = ImportedPassword(3)
    /\ previewData[2].password = JStr(<<"u">>)
    /\ previewData[2].websiteUrl = JStr(<<"w">>)

-----------------------------------------------------------------------------
(* The qualitative label.                                                  *)

\* the labels from the lowest to the highest
LabelOrder == <<"Very Weak", "Weak", "Fair", "Good", "Strong">>
LabelRank(label) == CHOOSE k \in 1..Len(LabelOrder) : LabelOrder[k] = label

\* C26: the qualitative label is monotone in the qualitative score: for the
\* scored password and any other password whose score is not lower, the label
\* of the scored password is not above the other's label, over the whole
\* score range 0..5.
C26_LabelMonotone ==
    strength # NotScored =>
        \A q \in Comparands :
            LET other == AnalyzeStrength(q)
            IN strength.score <= other.score =>
                   LabelRank(strength.label) <= LabelRank(other.label)

-----------------------------------------------------------------------------
(* The secrets of the candidates.                                          *)

\* C27: every candidate a parser hands to the preview has a non-empty
\* password, and the commit never creates a stored record with an empty
\* password.
C27_NoEmptyPassword ==
    /\ \A k \in 1..Len(previewData) :
           /\ previewData[k].password # JStr(<<>>)
           /\ Truthy(previewData[k].password)
    /\ \A k \in 1..Len(store) : store[k].password # JStr(<<>>)

-----------------------------------------------------------------------------
(* Repeated commits.                                                       *)

\* how many times the candidate at index k of the present preview has been
\* created in the store
TimesCreated(k) ==
    Cardinality({j \in 1..Len(commit.created) : commit.created[j] = k})

\* C28: as long as no new file is selected, whatever the user does on the
\* import screen (Import, switching steps, 'Import More', Import again), no
\* candidate of the parsed file is successfully created in the store more
\* than once, and at most one commit loop runs at a time: while one runs the
\* Import button is disabled.
C28_CommittedAtMostOnce ==
    /\ \A k \in 0..(Len(previewData) - 1) : TimesCreated(k) <= 1
    /\ commit.pc \in {"auth", "loop"} => importing


----------------------------------------------------------------------------
(* C30.  All callers of getInstance hold one and the same                  *)
(* EncryptionService object, and after any sequence of setMasterKey,       *)
(* clearMasterKey, encrypt and decrypt calls on it: isUnlocked() is true   *)
(* exactly when a setMasterKey call occurred with no later clearMasterKey; *)
(* encrypt and decrypt return a value only in that state and otherwise     *)
(* fail with 'Master key not set'; and encrypt and decrypt never change    *)
(* the key state.                                                          *)

\* the callers that hold an object
Holders == {c \in Callers : held[c] # 0}

C30_OneKeyHolder ==
    [][/\ \A c, d \in Callers :
              held'[c] # 0 /\ held'[d] # 0 => held'[c] = held'[d]
       /\ lastCall'.op = "isUnlocked" => lastCall'.value = keySet
       /\ lastCall'.op \in {"encrypt", "decrypt"} =>
              /\ masterKey' = masterKey
              /\ keySet' = keySet
              /\ lastCall'.outcome = "returned" => keySet
              /\ ~keySet => /\ lastCall'.outcome = "threw"
                            /\ lastCall'.value = "Master key not set"]_vars

\* one caller set the key and the other one decrypted with it a ciphertext
\* of that key
C30_Witness ==
    /\ Holders = Callers
    /\ keySet
    /\ lastCall.op = "decrypt"
    /\ lastCall.by = 2
    /\ lastCall.outcome = "returned"
    /\ lastCall.value = <<"s">>
    /\ masterKey = <<DerivedKey(<<"m">>)>>

=============================================================================
